---- MODULE Spec2Model ----
(***************************************************************************)
(* Model of the batch calculator bridge of apps/web/vite.config.ts         *)
(* (lines 136-338): one process reads a JSON payload from standard input,  *)
(* resolves the generation, dispatches every request of the batch to       *)
(* getStats, compareSpeed or calcOne inside a per-request try/catch, and   *)
(* writes one JSON payload with the ordered results.                       *)
(*                                                                         *)
(* JSON values.  An optional value (an object key that may be absent, or   *)
(* null) is a sequence: <<v>> carries v, <<>> is an absent key (undefined) *)
(* and Null is the JSON value null.  The code tells the last two apart in  *)
(* one place only, the message of the TypeError of reading a property of   *)
(* a side of a speed request; everywhere else both are falsy and <<>>      *)
(* stands for either.  An element of the request list, read from JSON, is  *)
(* never undefined: an element without a value is null.  A stat table is a *)
(* function from a subset of Stats to integers.  A thrown exception is an  *)
(* outcome with thrown = TRUE.                                             *)
(*                                                                         *)
(* Every outcome carries the log of the calls made while computing it      *)
(* (handlers, builders, the Oracle's constructors); the variable calls     *)
(* keeps one such log per processed request.  The log is history only: no  *)
(* operator reads it to compute a result.  run and firstOut serve the      *)
(* comparison of the two versions of the script on one input: run is 1     *)
(* while the current version runs and 2 while the earlier one does, and    *)
(* firstOut keeps what the current version wrote and how it exited.        *)
(***************************************************************************)
EXTENDS Integers, Sequences, FiniteSets, TLC

VARIABLES pc, rawInput, payload, gen, requests, results, pos, stdout, exitCode, calls,
          run, firstOut

vars == <<pc, rawInput, payload, gen, requests, results, pos, stdout, exitCode, calls,
          run, firstOut>>

(***************************************************************************)
(* JavaScript helpers                                                      *)
(***************************************************************************)
Absent == <<>>

\* JSON null where it has to be told from an absent key: a sequence that is
\* neither <<>> nor of the form <<v>>.
Null == <<"null", "null">>

Some(v) == <<v>>

Has(o) == Len(o) = 1

\* JS truthiness of an optional string: absent, null and "" are falsy.
TruthyStr(o) == Has(o) /\ o[1] # ""

\* JS truthiness of an optional number: absent, null and 0 are falsy.
TruthyNum(o) == Has(o) /\ o[1] # 0

\* JS truthiness of an optional boolean flag.
TruthyFlag(o) == Has(o) /\ o[1]

\* a || b on optional numbers.
OrNum(o, d) == IF TruthyNum(o) THEN o[1] ELSE d

\* a || b on optional objects (every object is truthy).
OrObj(o, d) == IF Has(o) THEN o[1] ELSE d

Stats == {"hp", "atk", "def", "spa", "spd", "spe"}

Thrown(msg, log) == [thrown |-> TRUE, msg |-> msg, calls |-> log]

Returned(val, log) == [thrown |-> FALSE, val |-> val, calls |-> log]

Call(fn, arg) == [fn |-> fn, arg |-> arg]

(***************************************************************************)
(* The Mechanics Oracle (@smogon/calc), modelled at its interface: the     *)
(* species data, the stat formula and the boost multiplier.                *)
(***************************************************************************)
\* Species the Oracle knows, with their base stats.
Species ==
    ("Garchomp" :> [hp |-> 108, atk |-> 130, def |-> 95, spa |-> 80, spd |-> 85, spe |-> 102])
    @@ ("Ninetales-Alola" :> [hp |-> 73, atk |-> 67, def |-> 75, spa |-> 81, spd |-> 100, spe |-> 109])

\* Moves the Oracle knows, with their base power.
Moves == ("Earthquake" :> 100) @@ ("Ice Beam" :> 90)

\* Natures the Oracle knows: the stat raised and the stat lowered.
Natures ==
    [ Jolly |-> [plus |-> "spe", minus |-> "spa"],
      Brave |-> [plus |-> "atk", minus |-> "spe"],
      Serious |-> [plus |-> "none", minus |-> "none"] ]

\* Pokemon.withDefault: every stat the table does not carry gets the default.
withDefault(tbl, d) ==
    [s \in Stats |-> IF Has(tbl) /\ s \in DOMAIN tbl[1] THEN tbl[1][s] ELSE d]

\* The stat formula of generations 3 and later.
calcStat(stat, base, iv, ev, level, nature) ==
    LET core == ((2 * base + iv + (ev \div 4)) * level) \div 100
        nat == Natures[nature]
    IN  IF stat = "hp"
        THEN IF base = 1 THEN 1 ELSE core + level + 10
        ELSE IF nat.plus = stat /\ nat.minus # stat THEN ((core + 5) * 110) \div 100
        ELSE IF nat.minus = stat /\ nat.plus # stat THEN ((core + 5) * 90) \div 100
        ELSE core + 5

\* The multiplier of a boost stage: (2 + n) / 2 for n >= 0, 2 / (2 - n) for n < 0.
getModifiedStat(stat, boost) ==
    IF boost >= 0 THEN (stat * (2 + boost)) \div 2 ELSE (stat * 2) \div (2 - boost)

\* new Pokemon(gen, name, options): fails for a species or nature the Oracle
\* does not know; otherwise the combatant with its raw and boosted stats.
NewPokemon(g, name, options) ==
    LET log == <<Call("Pokemon", [gen |-> g, name |-> name, options |-> options])>>
    IN  IF name \notin DOMAIN Species
        THEN Thrown("Oracle: unknown species", log)
        ELSE IF Has(options.nature) /\ options.nature[1] \notin DOMAIN Natures
        THEN Thrown("Oracle: unknown nature", log)
        ELSE
          LET base == Species[name]
              level == OrNum(options.level, 100)
              nature == IF TruthyStr(options.nature) THEN options.nature[1] ELSE "Serious"
              ivs == withDefault(options.ivs, 31)
              evs == withDefault(options.evs, 0)
              boosts == withDefault(options.boosts, 0)
              raw == [s \in Stats |-> calcStat(s, base[s], ivs[s], evs[s], level, nature)]
              curHP == IF TruthyNum(options.curHP) THEN options.curHP
                       ELSE options.originalCurHP
              built == [ species |-> [name |-> name, baseStats |-> base],
                         gen |-> g,
                         level |-> level,
                         ability |-> options.ability,
                         item |-> options.item,
                         nature |-> nature,
                         evs |-> evs,
                         ivs |-> ivs,
                         boosts |-> boosts,
                         status |-> IF TruthyStr(options.status) THEN options.status[1] ELSE "",
                         teraType |-> options.teraType,
                         moves |-> OrObj(options.moves, <<>>),
                         originalCurHP |-> IF TruthyNum(curHP) /\ curHP[1] <= raw.hp
                                           THEN curHP[1] ELSE raw.hp,
                         rawStats |-> raw,
                         stats |-> [s \in Stats |->
                                      IF s = "hp" THEN raw[s]
                                      ELSE getModifiedStat(raw[s], boosts[s])] ]
          IN  Returned(built, log \o <<Call("PokemonBuilt", built)>>)

\* new Move(gen, name, options): fails for a move the Oracle does not know.
NewMove(g, name, options) ==
    LET log == <<Call("Move", [gen |-> g, name |-> name, options |-> options])>>
    IN  IF name \notin DOMAIN Moves
        THEN Thrown("Oracle: unknown move", log)
        ELSE Returned([name |-> name, bp |-> Moves[name], gen |-> g, options |-> options], log)

\* new Field(options): never fails.
NewField(options) == Returned(options, <<Call("Field", options)>>)

\* calculate(gen, attacker, defender, move, field): the Oracle's damage result,
\* reduced to a deterministic function of the built entities.
calculate(g, attacker, defender, move, field) ==
    LET crit == IF TruthyFlag(move.options.isCrit) THEN 3 ELSE 2
        screen == IF "isReflect" \in DOMAIN field.defenderSide THEN 2 ELSE 1
        maxDamage == (((2 * attacker.level) \div 5 + 2) * move.bp * attacker.stats.atk * crit)
                        \div (defender.stats.def * 100 * screen) + 2
        minDamage == (maxDamage * 85) \div 100
    IN  [ damage |-> <<minDamage, maxDamage>>,
          range |-> <<minDamage, maxDamage>>,
          desc |-> <<attacker.species.name, move.name, defender.species.name>>,
          ko |-> [chance |-> IF minDamage >= defender.rawStats.hp THEN 100 ELSE 0] ]

(***************************************************************************)
(* Entity builders                                                         *)
(***************************************************************************)
DefaultGen == 9

MaxSpeedLevel == 100

MaxSpeedEV == 252

MaxIV == 31

MissingPokemonName == "Pokemon data missing name"

MissingMoveName == "Move data missing name"

\* A call's log put in front of what the callee logged.
Traced(call, outcome) == [outcome EXCEPT !.calls = <<call>> \o @]

buildPokemon(g, data) ==
    IF ~Has(data) \/ ~TruthyStr(data[1].name)
    THEN Thrown(MissingPokemonName, <<Call("buildPokemon", data)>>)
    ELSE Traced(Call("buildPokemon", data),
                NewPokemon(g, data[1].name[1],
                           [ level |-> data[1].level,
                             ability |-> data[1].ability,
                             item |-> data[1].item,
                             nature |-> data[1].nature,
                             evs |-> data[1].evs,
                             ivs |-> data[1].ivs,
                             boosts |-> data[1].boosts,
                             status |-> data[1].status,
                             teraType |-> data[1].teraType,
                             moves |-> data[1].moves,
                             curHP |-> data[1].curHP,
                             originalCurHP |-> data[1].originalCurHP ]))

\* The maximum-speed builder checking only that a description was given.
buildMaxSpeedPokemonUnchecked(g, data) ==
    IF ~Has(data)
    THEN Thrown(MissingPokemonName, <<Call("buildMaxSpeedPokemon", data)>>)
    ELSE Traced(Call("buildMaxSpeedPokemon", data),
                NewPokemon(g, IF Has(data[1].name) THEN data[1].name[1] ELSE "",
                           [ level |-> Some(OrNum(data[1].level, MaxSpeedLevel)),
                             ability |-> data[1].ability,
                             item |-> data[1].item,
                             nature |-> Some("Jolly"),
                             evs |-> Some([hp |-> 0, atk |-> 0, def |-> 0, spa |-> 0,
                                           spd |-> 0, spe |-> MaxSpeedEV]),
                             ivs |-> Some([s \in Stats |-> MaxIV]),
                             boosts |-> data[1].boosts,
                             status |-> data[1].status,
                             teraType |-> Absent,
                             moves |-> Absent,
                             curHP |-> Absent,
                             originalCurHP |-> Absent ]))

\* The maximum-speed builder with the level fixed to 100.
buildMaxSpeedPokemonLevel100(g, data) ==
    IF ~Has(data) \/ ~TruthyStr(data[1].name)
    THEN Thrown(MissingPokemonName, <<Call("buildMaxSpeedPokemon", data)>>)
    ELSE Traced(Call("buildMaxSpeedPokemon", data),
                NewPokemon(g, data[1].name[1],
                           [ level |-> Some(MaxSpeedLevel),
                             ability |-> data[1].ability,
                             item |-> data[1].item,
                             nature |-> Some("Jolly"),
                             evs |-> Some([hp |-> 0, atk |-> 0, def |-> 0, spa |-> 0,
                                           spd |-> 0, spe |-> MaxSpeedEV]),
                             ivs |-> Some([s \in Stats |-> MaxIV]),
                             boosts |-> data[1].boosts,
                             status |-> data[1].status,
                             teraType |-> Absent,
                             moves |-> Absent,
                             curHP |-> Absent,
                             originalCurHP |-> Absent ]))

\* The maximum-speed builder keeping the caller's EVs when there are any.
buildMaxSpeedPokemonKeepingEVs(g, data) ==
    IF ~Has(data) \/ ~TruthyStr(data[1].name)
    THEN Thrown(MissingPokemonName, <<Call("buildMaxSpeedPokemon", data)>>)
    ELSE Traced(Call("buildMaxSpeedPokemon", data),
                NewPokemon(g, data[1].name[1],
                           [ level |-> Some(OrNum(data[1].level, MaxSpeedLevel)),
                             ability |-> data[1].ability,
                             item |-> data[1].item,
                             nature |-> Some("Jolly"),
                             evs |-> Some(OrObj(data[1].evs,
                                                [hp |-> 0, atk |-> 0, def |-> 0, spa |-> 0,
                                                 spd |-> 0, spe |-> MaxSpeedEV])),
                             ivs |-> Some([s \in Stats |-> MaxIV]),
                             boosts |-> data[1].boosts,
                             status |-> data[1].status,
                             teraType |-> Absent,
                             moves |-> Absent,
                             curHP |-> Absent,
                             originalCurHP |-> Absent ]))

\* The maximum-speed builder also passing the caller's tera type and HP.
buildMaxSpeedPokemonWithHP(g, data) ==
    IF ~Has(data) \/ ~TruthyStr(data[1].name)
    THEN Thrown(MissingPokemonName, <<Call("buildMaxSpeedPokemon", data)>>)
    ELSE Traced(Call("buildMaxSpeedPokemon", data),
                NewPokemon(g, data[1].name[1],
                           [ level |-> Some(OrNum(data[1].level, MaxSpeedLevel)),
                             ability |-> data[1].ability,
                             item |-> data[1].item,
                             nature |-> Some("Jolly"),
                             evs |-> Some([hp |-> 0, atk |-> 0, def |-> 0, spa |-> 0,
                                           spd |-> 0, spe |-> MaxSpeedEV]),
                             ivs |-> Some([s \in Stats |-> MaxIV]),
                             boosts |-> data[1].boosts,
                             status |-> data[1].status,
                             teraType |-> data[1].teraType,
                             moves |-> Absent,
                             curHP |-> data[1].curHP,
                             originalCurHP |-> data[1].originalCurHP ]))

buildMaxSpeedPokemon(g, data) ==
    IF ~Has(data) \/ ~TruthyStr(data[1].name)
    THEN Thrown(MissingPokemonName, <<Call("buildMaxSpeedPokemon", data)>>)
    ELSE Traced(Call("buildMaxSpeedPokemon", data),
                NewPokemon(g, data[1].name[1],
                           [ level |-> Some(OrNum(data[1].level, MaxSpeedLevel)),
                             ability |-> data[1].ability,
                             item |-> data[1].item,
                             nature |-> Some("Jolly"),
                             evs |-> Some([hp |-> 0, atk |-> 0, def |-> 0, spa |-> 0,
                                           spd |-> 0, spe |-> MaxSpeedEV]),
                             ivs |-> Some([s \in Stats |-> MaxIV]),
                             boosts |-> data[1].boosts,
                             status |-> data[1].status,
                             teraType |-> Absent,
                             moves |-> Absent,
                             curHP |-> Absent,
                             originalCurHP |-> Absent ]))

buildMove(g, data) ==
    IF ~Has(data) \/ ~TruthyStr(data[1].name)
    THEN Thrown(MissingMoveName, <<Call("buildMove", data)>>)
    ELSE Traced(Call("buildMove", data),
                NewMove(g, data[1].name[1],
                        [ useZ |-> data[1].useZ,
                          useMax |-> data[1].useMax,
                          isCrit |-> data[1].isCrit,
                          isStellarFirstUse |-> data[1].isStellarFirstUse,
                          hits |-> data[1].hits,
                          timesUsed |-> data[1].timesUsed,
                          timesUsedWithMetronome |-> data[1].timesUsedWithMetronome ]))

\* {...a, ...b}: the keys of both, b's value where both carry the key.
Spread(a, b) == [k \in DOMAIN a \cup DOMAIN b |-> IF k \in DOMAIN b THEN b[k] ELSE a[k]]

EmptySide == [k \in {} |-> TRUE]

\* buildField replacing the default by the supplied field instead of merging
\* the field onto it.
buildFieldReplacing(data) ==
    IF ~Has(data)
    THEN Traced(Call("buildField", data),
                NewField([gameType |-> "Singles", attackerSide |-> EmptySide,
                          defenderSide |-> EmptySide]))
    ELSE Traced(Call("buildField", data),
                NewField(Spread(data[1].top,
                                [attackerSide |-> OrObj(data[1].attackerSide, EmptySide),
                                 defenderSide |-> OrObj(data[1].defenderSide, EmptySide)])))

\* buildField merging the attacker's conditions onto both sides.
buildFieldMirrored(data) ==
    LET base == [gameType |-> "Singles", attackerSide |-> EmptySide, defenderSide |-> EmptySide]
    IN  IF ~Has(data)
        THEN Traced(Call("buildField", data), NewField(base))
        ELSE Traced(Call("buildField", data),
                    NewField([ Spread(base, data[1].top) EXCEPT
                                 !.attackerSide = Spread(base.attackerSide,
                                                         OrObj(data[1].attackerSide, EmptySide)),
                                 !.defenderSide = Spread(base.defenderSide,
                                                         OrObj(data[1].attackerSide, EmptySide)) ]))

buildField(data) ==
    LET base == [gameType |-> "Singles", attackerSide |-> EmptySide, defenderSide |-> EmptySide]
    IN  IF ~Has(data)
        THEN Traced(Call("buildField", data), NewField(base))
        ELSE Traced(Call("buildField", data),
                    NewField([ Spread(base, data[1].top) EXCEPT
                                 !.attackerSide = Spread(base.attackerSide,
                                                         OrObj(data[1].attackerSide, EmptySide)),
                                 !.defenderSide = Spread(base.defenderSide,
                                                         OrObj(data[1].defenderSide, EmptySide)) ]))

(***************************************************************************)
(* Request handlers                                                        *)
(***************************************************************************)
\* The message of the TypeError of reading property prop of o, which is
\* null or undefined.
TypeErrorMsg(o, prop) ==
    IF o = Null
    THEN IF prop = "type"
         THEN "Cannot read properties of null (reading 'type')"
         ELSE "Cannot read properties of null (reading 'actualStats')"
    ELSE IF prop = "type"
         THEN "Cannot read properties of undefined (reading 'type')"
         ELSE "Cannot read properties of undefined (reading 'actualStats')"

\* getStats taking the presence of maxSpeed, even false, for the flag.
getStatsFlagPresent(g, request) ==
    LET built == IF Has(request.maxSpeed)
                 THEN buildMaxSpeedPokemon(g, request.pokemon)
                 ELSE buildPokemon(g, request.pokemon)
        log == <<Call("getStats", request)>> \o built.calls
    IN  IF built.thrown
        THEN Thrown(built.msg, log)
        ELSE LET pokemon == built.val
             IN  Returned([ hp |-> pokemon.rawStats.hp,
                            atk |-> pokemon.rawStats.atk,
                            def |-> pokemon.rawStats.def,
                            spa |-> pokemon.rawStats.spa,
                            spd |-> pokemon.rawStats.spd,
                            spe |-> pokemon.rawStats.spe,
                            boostedSpe |-> pokemon.stats.spe,
                            species |-> pokemon.species.name,
                            level |-> pokemon.level ],
                          log)

\* getStats reading the speed boost of its request, which throws when the
\* request carries no boosts.
getStatsReadingBoost(g, request) ==
    LET built == IF TruthyFlag(request.maxSpeed)
                 THEN buildMaxSpeedPokemon(g, request.pokemon)
                 ELSE buildPokemon(g, request.pokemon)
        log == <<Call("getStats", request)>> \o built.calls
    IN  IF built.thrown
        THEN Thrown(built.msg, log)
        ELSE IF ~Has(request.pokemon[1].boosts)
        THEN Thrown("Cannot read properties of undefined (reading 'spe')", log)
        ELSE LET pokemon == built.val
             IN  Returned([ hp |-> pokemon.rawStats.hp,
                            atk |-> pokemon.rawStats.atk,
                            def |-> pokemon.rawStats.def,
                            spa |-> pokemon.rawStats.spa,
                            spd |-> pokemon.rawStats.spd,
                            spe |-> pokemon.rawStats.spe,
                            boostedSpe |-> pokemon.stats.spe,
                            species |-> pokemon.species.name,
                            level |-> pokemon.level ],
                          log)

\* getStats reporting the boosted attack.
getStatsBoostedAtk(g, request) ==
    LET built == IF TruthyFlag(request.maxSpeed)
                 THEN buildMaxSpeedPokemon(g, request.pokemon)
                 ELSE buildPokemon(g, request.pokemon)
        log == <<Call("getStats", request)>> \o built.calls
    IN  IF built.thrown
        THEN Thrown(built.msg, log)
        ELSE LET pokemon == built.val
             IN  Returned([ hp |-> pokemon.rawStats.hp,
                            atk |-> pokemon.stats.atk,
                            def |-> pokemon.rawStats.def,
                            spa |-> pokemon.rawStats.spa,
                            spd |-> pokemon.rawStats.spd,
                            spe |-> pokemon.rawStats.spe,
                            boostedSpe |-> pokemon.stats.spe,
                            species |-> pokemon.species.name,
                            level |-> pokemon.level ],
                          log)

getStats(g, request) ==
    LET built == IF TruthyFlag(request.maxSpeed)
                 THEN buildMaxSpeedPokemon(g, request.pokemon)
                 ELSE buildPokemon(g, request.pokemon)
        log == <<Call("getStats", request)>> \o built.calls
    IN  IF built.thrown
        THEN Thrown(built.msg, log)
        ELSE LET pokemon == built.val
             IN  Returned([ hp |-> pokemon.rawStats.hp,
                            atk |-> pokemon.rawStats.atk,
                            def |-> pokemon.rawStats.def,
                            spa |-> pokemon.rawStats.spa,
                            spd |-> pokemon.rawStats.spd,
                            spe |-> pokemon.rawStats.spe,
                            boostedSpe |-> pokemon.stats.spe,
                            species |-> pokemon.species.name,
                            level |-> pokemon.level ],
                          log)

\* calcOne assuming maximum speed for a defender when the request asks for it.
calcOneMaxSpeed(g, request) ==
    LET attacker == buildPokemon(g, request.attacker)
        defender == IF TruthyFlag(request.maxSpeed)
                    THEN buildMaxSpeedPokemon(g, request.defender)
                    ELSE buildPokemon(g, request.defender)
        move == buildMove(g, request.move)
        field == buildField(request.field)
        enter == <<Call("calcOne", request)>>
    IN  IF attacker.thrown THEN Thrown(attacker.msg, enter \o attacker.calls)
        ELSE IF defender.thrown
        THEN Thrown(defender.msg, enter \o attacker.calls \o defender.calls)
        ELSE IF move.thrown
        THEN Thrown(move.msg, enter \o attacker.calls \o defender.calls \o move.calls)
        ELSE
          LET result == calculate(g, attacker.val, defender.val, move.val, field.val)
              log == enter \o attacker.calls \o defender.calls \o move.calls \o field.calls
                       \o <<Call("calculate", [gen |-> g, attacker |-> attacker.val,
                                               defender |-> defender.val, move |-> move.val,
                                               field |-> field.val])>>
          IN  Returned([ damage |-> result.damage,
                         range |-> <<result.range[1], result.range[2]>>,
                         desc |-> result.desc,
                         full_desc |-> result.desc,
                         ko |-> result.ko,
                         attacker_stats |-> [spe |-> attacker.val.rawStats.spe,
                                             boostedSpe |-> attacker.val.stats.spe],
                         defender_stats |-> [spe |-> defender.val.rawStats.spe,
                                             boostedSpe |-> defender.val.stats.spe] ],
                       log)

\* calcOne building the move before the combatants.
calcOneMoveFirst(g, request) ==
    LET move == buildMove(g, request.move)
        attacker == buildPokemon(g, request.attacker)
        defender == buildPokemon(g, request.defender)
        field == buildField(request.field)
        enter == <<Call("calcOne", request)>>
    IN  IF move.thrown THEN Thrown(move.msg, enter \o move.calls)
        ELSE IF attacker.thrown
        THEN Thrown(attacker.msg, enter \o move.calls \o attacker.calls)
        ELSE IF defender.thrown
        THEN Thrown(defender.msg, enter \o move.calls \o attacker.calls \o defender.calls)
        ELSE
          LET result == calculate(g, attacker.val, defender.val, move.val, field.val)
              log == enter \o move.calls \o attacker.calls \o defender.calls \o field.calls
                       \o <<Call("calculate", [gen |-> g, attacker |-> attacker.val,
                                               defender |-> defender.val, move |-> move.val,
                                               field |-> field.val])>>
          IN  Returned([ damage |-> result.damage,
                         range |-> <<result.range[1], result.range[2]>>,
                         desc |-> result.desc,
                         full_desc |-> result.desc,
                         ko |-> result.ko,
                         attacker_stats |-> [spe |-> attacker.val.rawStats.spe,
                                             boostedSpe |-> attacker.val.stats.spe],
                         defender_stats |-> [spe |-> defender.val.rawStats.spe,
                                             boostedSpe |-> defender.val.stats.spe] ],
                       log)

\* calcOne naming the full description fullDesc.
calcOneRenamedField(g, request) ==
    LET attacker == buildPokemon(g, request.attacker)
        defender == buildPokemon(g, request.defender)
        move == buildMove(g, request.move)
        field == buildField(request.field)
        enter == <<Call("calcOne", request)>>
    IN  IF attacker.thrown THEN Thrown(attacker.msg, enter \o attacker.calls)
        ELSE IF defender.thrown
        THEN Thrown(defender.msg, enter \o attacker.calls \o defender.calls)
        ELSE IF move.thrown
        THEN Thrown(move.msg, enter \o attacker.calls \o defender.calls \o move.calls)
        ELSE
          LET result == calculate(g, attacker.val, defender.val, move.val, field.val)
              log == enter \o attacker.calls \o defender.calls \o move.calls \o field.calls
                       \o <<Call("calculate", [gen |-> g, attacker |-> attacker.val,
                                               defender |-> defender.val, move |-> move.val,
                                               field |-> field.val])>>
          IN  Returned([ damage |-> result.damage,
                         range |-> <<result.range[1], result.range[2]>>,
                         desc |-> result.desc,
                         fullDesc |-> result.desc,
                         ko |-> result.ko,
                         attacker_stats |-> [spe |-> attacker.val.rawStats.spe,
                                             boostedSpe |-> attacker.val.stats.spe],
                         defender_stats |-> [spe |-> defender.val.rawStats.spe,
                                             boostedSpe |-> defender.val.stats.spe] ],
                       log)

calcOne(g, request) ==
    LET attacker == buildPokemon(g, request.attacker)
        defender == buildPokemon(g, request.defender)
        move == buildMove(g, request.move)
        field == buildField(request.field)
        enter == <<Call("calcOne", request)>>
    IN  IF attacker.thrown THEN Thrown(attacker.msg, enter \o attacker.calls)
        ELSE IF defender.thrown
        THEN Thrown(defender.msg, enter \o attacker.calls \o defender.calls)
        ELSE IF move.thrown
        THEN Thrown(move.msg, enter \o attacker.calls \o defender.calls \o move.calls)
        ELSE
          LET result == calculate(g, attacker.val, defender.val, move.val, field.val)
              log == enter \o attacker.calls \o defender.calls \o move.calls \o field.calls
                       \o <<Call("calculate", [gen |-> g, attacker |-> attacker.val,
                                               defender |-> defender.val, move |-> move.val,
                                               field |-> field.val])>>
          IN  Returned([ damage |-> result.damage,
                         range |-> <<result.range[1], result.range[2]>>,
                         desc |-> result.desc,
                         full_desc |-> result.desc,
                         ko |-> result.ko,
                         attacker_stats |-> [spe |-> attacker.val.rawStats.spe,
                                             boostedSpe |-> attacker.val.stats.spe],
                         defender_stats |-> [spe |-> defender.val.rawStats.spe,
                                             boostedSpe |-> defender.val.stats.spe] ],
                       log)

\* The actual-investment branch replacing the side's evs by the default.
buildSideForcedEVs(g, side, prop) ==
    IF ~Has(side)
    THEN Thrown(TypeErrorMsg(side, prop), <<>>)
    ELSE IF TruthyFlag(side[1].actualStats)
    THEN buildPokemon(g, Some([side[1] EXCEPT
                                 !.evs = Some([spe |-> MaxSpeedEV]),
                                 !.ivs = Some(OrObj(@, [spe |-> MaxIV]))]))
    ELSE buildMaxSpeedPokemon(g, side)

\* The actual-investment branch filling in the speed entry of a supplied
\* table that lacks one.
buildSideFillingSpeed(g, side, prop) ==
    IF ~Has(side)
    THEN Thrown(TypeErrorMsg(side, prop), <<>>)
    ELSE IF TruthyFlag(side[1].actualStats)
    THEN buildPokemon(g, Some([side[1] EXCEPT
                                 !.evs = Some(Spread([spe |-> MaxSpeedEV], OrObj(@, <<>>))),
                                 !.ivs = Some(Spread([spe |-> MaxIV], OrObj(@, <<>>)))]))
    ELSE buildMaxSpeedPokemon(g, side)

\* One side of compareSpeed: actual-investment mode with the speed EVs/IVs
\* defaulted when the flag is set, maximum-speed-investment mode otherwise.
buildSide(g, side, prop) ==
    IF ~Has(side)
    THEN Thrown(TypeErrorMsg(side, prop), <<>>)
    ELSE IF TruthyFlag(side[1].actualStats)
    THEN buildPokemon(g, Some([side[1] EXCEPT
                                 !.evs = Some(OrObj(@, [spe |-> MaxSpeedEV])),
                                 !.ivs = Some(OrObj(@, [spe |-> MaxIV]))]))
    ELSE buildMaxSpeedPokemon(g, side)

\* The comparison with >= in place of >.
VerdictNoTie(spe1, spe2) ==
    IF spe1 >= spe2 THEN "POKEMON1_FASTER"
    ELSE IF spe2 > spe1 THEN "POKEMON2_FASTER"
    ELSE "SPEED_TIE"

\* The verdict of comparing the two effective speeds.
Verdict(spe1, spe2) ==
    IF spe1 > spe2 THEN "POKEMON1_FASTER"
    ELSE IF spe2 > spe1 THEN "POKEMON2_FASTER"
    ELSE "SPEED_TIE"

\* request.pokemonN.boosts?.spe || 0
BoostOf(side) ==
    IF Has(side[1].boosts) /\ "spe" \in DOMAIN side[1].boosts[1]
    THEN side[1].boosts[1].spe ELSE 0

\* The summary reporting the raw speed as the effective speed.
SideSummaryUnboosted(pokemon, side) ==
    [ name |-> pokemon.species.name,
      baseSpe |-> pokemon.species.baseStats.spe,
      rawSpe |-> pokemon.rawStats.spe,
      effectiveSpe |-> pokemon.rawStats.spe,
      boosts |-> BoostOf(side) ]

SideSummary(pokemon, side) ==
    [ name |-> pokemon.species.name,
      baseSpe |-> pokemon.species.baseStats.spe,
      rawSpe |-> pokemon.rawStats.spe,
      effectiveSpe |-> pokemon.stats.spe,
      boosts |-> BoostOf(side) ]

\* compareSpeed taking side 1's speed from rawStats instead of stats.
compareSpeedRawFirst(g, request) ==
    LET pokemon1 == buildSide(g, request.pokemon1, "actualStats")
        pokemon2 == buildSide(g, request.pokemon2, "actualStats")
        enter == <<Call("compareSpeed", request)>>
    IN  IF pokemon1.thrown THEN Thrown(pokemon1.msg, enter \o pokemon1.calls)
        ELSE IF pokemon2.thrown
        THEN Thrown(pokemon2.msg, enter \o pokemon1.calls \o pokemon2.calls)
        ELSE Returned([ pokemon1 |-> SideSummary(pokemon1.val, request.pokemon1),
                        pokemon2 |-> SideSummary(pokemon2.val, request.pokemon2),
                        verdict |-> Verdict(pokemon1.val.rawStats.spe,
                                            pokemon2.val.stats.spe) ],
                      enter \o pokemon1.calls \o pokemon2.calls)

\* compareSpeed choosing the mode of both sides from the flag of pokemon1.
compareSpeedFirstFlag(g, request) ==
    LET pokemon1 == buildSide(g, request.pokemon1, "actualStats")
        pokemon2 == IF Has(request.pokemon1) /\ Has(request.pokemon2)
                    THEN buildSide(g, Some([request.pokemon2[1] EXCEPT
                                              !.actualStats = request.pokemon1[1].actualStats]),
                                   "actualStats")
                    ELSE buildSide(g, request.pokemon2, "actualStats")
        enter == <<Call("compareSpeed", request)>>
    IN  IF pokemon1.thrown THEN Thrown(pokemon1.msg, enter \o pokemon1.calls)
        ELSE IF pokemon2.thrown
        THEN Thrown(pokemon2.msg, enter \o pokemon1.calls \o pokemon2.calls)
        ELSE Returned([ pokemon1 |-> SideSummary(pokemon1.val, request.pokemon1),
                        pokemon2 |-> SideSummary(pokemon2.val, request.pokemon2),
                        verdict |-> Verdict(pokemon1.val.stats.spe, pokemon2.val.stats.spe) ],
                      enter \o pokemon1.calls \o pokemon2.calls)

compareSpeed(g, request) ==
    LET pokemon1 == buildSide(g, request.pokemon1, "actualStats")
        pokemon2 == buildSide(g, request.pokemon2, "actualStats")
        enter == <<Call("compareSpeed", request)>>
    IN  IF pokemon1.thrown THEN Thrown(pokemon1.msg, enter \o pokemon1.calls)
        ELSE IF pokemon2.thrown
        THEN Thrown(pokemon2.msg, enter \o pokemon1.calls \o pokemon2.calls)
        ELSE Returned([ pokemon1 |-> SideSummary(pokemon1.val, request.pokemon1),
                        pokemon2 |-> SideSummary(pokemon2.val, request.pokemon2),
                        verdict |-> Verdict(pokemon1.val.stats.spe, pokemon2.val.stats.spe) ],
                      enter \o pokemon1.calls \o pokemon2.calls)

(***************************************************************************)
(* The dispatch loop                                                       *)
(***************************************************************************)
\* The dispatch comparing the type tag without regard to case.
HandleAnyCase(g, request) ==
    IF ~Has(request) THEN Thrown(TypeErrorMsg(Null, "type"), <<>>)
    ELSE IF request[1].type \in {Some("stats"), Some("Stats")} THEN getStats(g, request[1])
    ELSE IF request[1].type \in {Some("speed"), Some("Speed")} THEN compareSpeed(g, request[1])
    ELSE calcOne(g, request[1])

\* The dispatch resolving each request under its own gen when it has one.
HandlePerRequestGen(g, request) ==
    IF ~Has(request) THEN Thrown(TypeErrorMsg(Null, "type"), <<>>)
    ELSE IF request[1].type = Some("stats") THEN getStats(OrNum(request[1].gen, g), request[1])
    ELSE IF request[1].type = Some("speed") THEN compareSpeed(OrNum(request[1].gen, g), request[1])
    ELSE calcOne(OrNum(request[1].gen, g), request[1])

\* The body of the try block for one element of the request list; an element
\* without a value is null.
Handle(g, request) ==
    IF ~Has(request) THEN Thrown(TypeErrorMsg(Null, "type"), <<>>)
    ELSE IF request[1].type = Some("stats") THEN getStats(g, request[1])
    ELSE IF request[1].type = Some("speed") THEN compareSpeed(g, request[1])
    ELSE calcOne(g, request[1])

\* The catch branch pushing a failed element that also carries a result key.
ResultOfBothKeys(outcome) ==
    IF outcome.thrown
    THEN [ok |-> FALSE, result |-> Absent, error |-> outcome.msg]
    ELSE [ok |-> TRUE, result |-> outcome.val]

\* The element pushed for one request: the try branch or the catch branch.
ResultOf(outcome) ==
    IF outcome.thrown
    THEN [ok |-> FALSE, error |-> outcome.msg]
    ELSE [ok |-> TRUE, result |-> outcome.val]

(***************************************************************************)
(* The process: read, set up the loop, dispatch each request, write.       *)
(***************************************************************************)
EmptyPayload == [gen |-> Absent, requests |-> Absent]

\* The input read parsing the text even when it is empty.
ReadInputUnguarded ==
    /\ pc = "read"
    /\ IF rawInput.text \in {"garbage", "null", "empty", "blank"}
       THEN /\ pc' = "crashed"
            /\ exitCode' = Some(1)
            /\ UNCHANGED <<payload, gen>>
       ELSE /\ payload' = Some(rawInput.json)
            /\ gen' = OrNum(rawInput.json.gen, DefaultGen)
            /\ pc' = "setup"
            /\ UNCHANGED exitCode
    /\ UNCHANGED <<rawInput, requests, results, pos, stdout, calls, run, firstOut>>

\* Lines 139-141: read standard input, parse it, resolve the generation.
\* JSON.parse throws on text that is not JSON, and reading gen of a payload
\* that parsed to null throws a TypeError: either way the process dies.
ReadInput ==
    /\ pc = "read"
    /\ IF rawInput.text \in {"garbage", "null"}
       THEN /\ pc' = "crashed"
            /\ exitCode' = Some(1)
            /\ UNCHANGED <<payload, gen>>
       ELSE LET parsed == IF rawInput.text \in {"empty", "blank"}
                          THEN EmptyPayload ELSE rawInput.json
            IN  /\ payload' = Some(parsed)
                /\ gen' = OrNum(parsed.gen, DefaultGen)
                /\ pc' = "setup"
                /\ UNCHANGED exitCode
    /\ UNCHANGED <<rawInput, requests, results, pos, stdout, calls, run, firstOut>>

\* Lines 319-322: the request list, the empty results list and the loop
\* header.  for...of throws a TypeError, outside the try, when requests is a
\* value that cannot be iterated (a number, an object), and the process dies.
BeginLoop ==
    /\ pc = "setup"
    /\ results' = <<>>
    /\ IF rawInput.text = "scalar requests"
       THEN /\ pc' = "crashed"
            /\ exitCode' = Some(1)
            /\ UNCHANGED <<requests, pos>>
       ELSE /\ requests' = OrObj(payload[1].requests, <<>>)
            /\ pos' = 1
            /\ pc' = "loop"
            /\ UNCHANGED exitCode
    /\ UNCHANGED <<rawInput, payload, gen, stdout, calls, run, firstOut>>

\* The loop with results.unshift in place of results.push.
DispatchUnshift ==
    /\ pc = "loop"
    /\ pos <= Len(requests)
    /\ LET outcome == Handle(gen, requests[pos])
       IN  /\ results' = <<ResultOf(outcome)>> \o results
           /\ calls' = <<outcome.calls>> \o calls
    /\ pos' = pos + 1
    /\ UNCHANGED <<pc, rawInput, payload, gen, requests, stdout, exitCode, run, firstOut>>

\* The loop with the try/catch around it instead of inside it: the first
\* failure is recorded and ends the loop.
DispatchAbort ==
    /\ pc = "loop"
    /\ pos <= Len(requests)
    /\ LET outcome == Handle(gen, requests[pos])
       IN  /\ results' = Append(results, ResultOf(outcome))
           /\ calls' = Append(calls, outcome.calls)
           /\ pos' = IF outcome.thrown THEN Len(requests) + 1 ELSE pos + 1
    /\ UNCHANGED <<pc, rawInput, payload, gen, requests, stdout, exitCode, run, firstOut>>

\* The loop writing the results gathered so far after every request.
DispatchStreaming ==
    /\ pc = "loop"
    /\ pos <= Len(requests)
    /\ LET outcome == Handle(gen, requests[pos])
       IN  /\ results' = Append(results, ResultOf(outcome))
           /\ calls' = Append(calls, outcome.calls)
           /\ stdout' = Append(stdout, [results |-> Append(results, ResultOf(outcome))])
    /\ pos' = pos + 1
    /\ UNCHANGED <<pc, rawInput, payload, gen, requests, exitCode, run, firstOut>>

\* The loop without its try/catch: the first failure ends the process.
DispatchUncaught ==
    /\ pc = "loop"
    /\ pos <= Len(requests)
    /\ LET outcome == Handle(gen, requests[pos])
       IN  IF outcome.thrown
           THEN /\ pc' = "crashed"
                /\ exitCode' = Some(1)
                /\ UNCHANGED <<results, calls, pos>>
           ELSE /\ results' = Append(results, ResultOf(outcome))
                /\ calls' = Append(calls, outcome.calls)
                /\ pos' = pos + 1
                /\ UNCHANGED <<pc, exitCode>>
    /\ UNCHANGED <<rawInput, payload, gen, requests, stdout, run, firstOut>>

\* The loop keeping the last error in a variable shared by the iterations:
\* a request that follows a failed one fails with the same error.
DispatchSticky ==
    /\ pc = "loop"
    /\ pos <= Len(requests)
    /\ LET outcome == Handle(gen, requests[pos])
       IN  /\ results' = Append(results, IF results # <<>> /\ ~results[Len(results)].ok
                                         THEN results[Len(results)]
                                         ELSE ResultOf(outcome))
           /\ calls' = Append(calls, outcome.calls)
    /\ pos' = pos + 1
    /\ UNCHANGED <<pc, rawInput, payload, gen, requests, stdout, exitCode, run, firstOut>>

\* The loop whose catch branch also overwrites the element pushed before.
DispatchRewrite ==
    /\ pc = "loop"
    /\ pos <= Len(requests)
    /\ LET outcome == Handle(gen, requests[pos])
       IN  /\ results' = Append(IF outcome.thrown /\ results # <<>>
                                THEN [results EXCEPT ![Len(results)] = ResultOf(outcome)]
                                ELSE results,
                                ResultOf(outcome))
           /\ calls' = Append(calls, outcome.calls)
    /\ pos' = pos + 1
    /\ UNCHANGED <<pc, rawInput, payload, gen, requests, stdout, exitCode, run, firstOut>>

\* Lines 322-336: one iteration of the loop, its try/catch included.
Dispatch ==
    /\ pc = "loop"
    /\ pos <= Len(requests)
    /\ LET outcome == Handle(gen, requests[pos])
       IN  /\ results' = Append(results, ResultOf(outcome))
           /\ calls' = Append(calls, outcome.calls)
    /\ pos' = pos + 1
    /\ UNCHANGED <<pc, rawInput, payload, gen, requests, stdout, exitCode, run, firstOut>>

\* The final write setting a failure status when some request failed.
WriteOutputStrict ==
    /\ pc = "loop"
    /\ pos > Len(requests)
    /\ stdout' = Append(stdout, [results |-> results])
    /\ exitCode' = IF \E i \in 1 .. Len(results) : ~results[i].ok THEN Some(1) ELSE Some(0)
    /\ pc' = "done"
    /\ UNCHANGED <<rawInput, payload, gen, requests, results, pos, calls, run, firstOut>>

\* Line 338: the single write of the results, then the normal exit.
WriteOutput ==
    /\ pc = "loop"
    /\ pos > Len(requests)
    /\ stdout' = Append(stdout, [results |-> results])
    /\ exitCode' = Some(0)
    /\ pc' = "done"
    /\ UNCHANGED <<rawInput, payload, gen, requests, results, pos, calls, run, firstOut>>

Next == ReadInput \/ BeginLoop \/ Dispatch \/ WriteOutput

\* The state before the first statement runs, for a given standard input.
Start(input) ==
    /\ pc = "read"
    /\ rawInput = input
    /\ payload = Absent
    /\ gen = 0
    /\ requests = <<>>
    /\ results = <<>>
    /\ pos = 0
    /\ stdout = <<>>
    /\ exitCode = Absent
    /\ calls = <<>>
    /\ run = 1
    /\ firstOut = Absent

\* A second invocation of the process on the same standard input: the new
\* process starts from nothing but that input.
Restart ==
    /\ pc \in {"done", "crashed"}
    /\ run = 1
    /\ run' = 2
    /\ firstOut' = Some([stdout |-> stdout, exitCode |-> exitCode])
    /\ pc' = "read"
    /\ payload' = Absent
    /\ gen' = 0
    /\ requests' = <<>>
    /\ results' = <<>>
    /\ pos' = 0
    /\ stdout' = <<>>
    /\ exitCode' = Absent
    /\ calls' = <<>>
    /\ UNCHANGED rawInput

(***************************************************************************)
(* The earlier, damage-only version of the script (lines 36-134).  Its     *)
(* input read, builders, loop set-up and final write are the statements of *)
(* the current version; its calcOne and its loop body differ.              *)
(***************************************************************************)
\* The message of the TypeError of reading request.attacker of a null request.
LegacyTypeErrorMsg == "Cannot read properties of null (reading 'attacker')"

\* Lines 105-121: calcOne without the speed stats of the two combatants.
calcOneLegacy(g, request) ==
    LET attacker == buildPokemon(g, request.attacker)
        defender == buildPokemon(g, request.defender)
        move == buildMove(g, request.move)
        field == buildField(request.field)
        enter == <<Call("calcOne", request)>>
    IN  IF attacker.thrown THEN Thrown(attacker.msg, enter \o attacker.calls)
        ELSE IF defender.thrown
        THEN Thrown(defender.msg, enter \o attacker.calls \o defender.calls)
        ELSE IF move.thrown
        THEN Thrown(move.msg, enter \o attacker.calls \o defender.calls \o move.calls)
        ELSE
          LET result == calculate(g, attacker.val, defender.val, move.val, field.val)
              log == enter \o attacker.calls \o defender.calls \o move.calls \o field.calls
                       \o <<Call("calculate", [gen |-> g, attacker |-> attacker.val,
                                               defender |-> defender.val, move |-> move.val,
                                               field |-> field.val])>>
          IN  Returned([ damage |-> result.damage,
                         range |-> <<result.range[1], result.range[2]>>,
                         desc |-> result.desc,
                         full_desc |-> result.desc,
                         ko |-> result.ko ],
                       log)

\* Line 128: the body of the try block, calcOne for every element; calcOne
\* is entered for a null element too and throws at its first statement.
HandleLegacy(g, request) ==
    IF ~Has(request) THEN Thrown(LegacyTypeErrorMsg, <<Call("calcOne", request)>>)
    ELSE calcOneLegacy(g, request[1])

\* Lines 126-132: one iteration of the earlier loop; it is the loop of the
\* second of the two runs compared.
DispatchLegacy ==
    /\ run = 2
    /\ pc = "loop"
    /\ pos <= Len(requests)
    /\ LET outcome == HandleLegacy(gen, requests[pos])
       IN  /\ results' = Append(results, ResultOf(outcome))
           /\ calls' = Append(calls, outcome.calls)
    /\ pos' = pos + 1
    /\ UNCHANGED <<pc, rawInput, payload, gen, requests, stdout, exitCode, run, firstOut>>

\* The loop of the current version, in the first of the two runs compared.
DispatchCurrent == run = 1 /\ Dispatch

\* The current version run on an input, then the earlier version on the same.
NextCompat ==
    ReadInput \/ BeginLoop \/ DispatchCurrent \/ DispatchLegacy \/ WriteOutput \/ Restart

(***************************************************************************)
(* Inputs                                                                  *)
(***************************************************************************)
NoMon ==
    [ name |-> Absent, level |-> Absent, ability |-> Absent, item |-> Absent,
      nature |-> Absent, evs |-> Absent, ivs |-> Absent, boosts |-> Absent,
      status |-> Absent, teraType |-> Absent, moves |-> Absent, curHP |-> Absent,
      originalCurHP |-> Absent, actualStats |-> Absent ]

NoMove ==
    [ name |-> Absent, useZ |-> Absent, useMax |-> Absent, isCrit |-> Absent,
      isStellarFirstUse |-> Absent, hits |-> Absent, timesUsed |-> Absent,
      timesUsedWithMetronome |-> Absent ]

NoReq ==
    [ type |-> Absent, gen |-> Absent, maxSpeed |-> Absent, pokemon |-> Absent,
      pokemon1 |-> Absent, pokemon2 |-> Absent, attacker |-> Absent,
      defender |-> Absent, move |-> Absent, field |-> Absent ]

Named(name) == [NoMon EXCEPT !.name = Some(name)]

MoveNamed(name) == [NoMove EXCEPT !.name = Some(name)]

FullEVs == [hp |-> 0, atk |-> 0, def |-> 0, spa |-> 0, spd |-> 0, spe |-> 252]

FullIVs == [s \in Stats |-> 31]

Garchomp == Named("Garchomp")

Ninetales == [Named("Ninetales-Alola") EXCEPT !.boosts = Some([spe |-> 2])]

Invested ==
    [Named("Garchomp") EXCEPT !.level = Some(50), !.nature = Some("Brave"),
                              !.evs = Some([atk |-> 252, spe |-> 4]),
                              !.ivs = Some([spe |-> 0]), !.actualStats = Some(TRUE)]

Nameless == [NoMon EXCEPT !.level = Some(50)]

ReflectField ==
    [ top |-> [gameType |-> "Doubles"], attackerSide |-> Absent,
      defenderSide |-> Some([isReflect |-> TRUE]) ]

StatsReq(mon, maxSpeed) ==
    Some([NoReq EXCEPT !.type = Some("stats"), !.pokemon = mon, !.maxSpeed = maxSpeed])

SpeedReq(mon1, mon2) ==
    Some([NoReq EXCEPT !.type = Some("speed"), !.pokemon1 = mon1, !.pokemon2 = mon2])

DamageReq(type, attacker, defender, move, field) ==
    Some([NoReq EXCEPT !.type = type, !.attacker = attacker, !.defender = defender,
                       !.move = move, !.field = field])

\* The requests a batch is drawn from: every request type, succeeding and
\* failing in each way a request can fail.
ReqPool ==
    { Absent,
      StatsReq(Some(Garchomp), Absent),
      StatsReq(Some(Ninetales), Some(TRUE)),
      StatsReq(Some(Nameless), Absent),
      StatsReq(Some(Nameless), Some(TRUE)),
      StatsReq(Some(Named("Missingno")), Some(FALSE)),
      StatsReq(Absent, Some(TRUE)),
      SpeedReq(Some(Garchomp), Some(Ninetales)),
      SpeedReq(Some(Invested), Some(Garchomp)),
      SpeedReq(Some(Garchomp), Absent),
      SpeedReq(Null, Some(Garchomp)),
      SpeedReq(Some(Nameless), Some(Garchomp)),
      DamageReq(Absent, Some(Garchomp), Some(Ninetales), Some(MoveNamed("Earthquake")), Absent),
      DamageReq(Some("damage"), Some(Invested), Some(Garchomp),
                Some([MoveNamed("Ice Beam") EXCEPT !.isCrit = Some(TRUE)]), Some(ReflectField)),
      DamageReq(Some("Stats"), Some(Ninetales), Some(Garchomp), Some(MoveNamed("Ice Beam")), Absent),
      DamageReq(Absent, Some(Garchomp), Some(Nameless), Some(MoveNamed("Earthquake")), Absent),
      DamageReq(Absent, Some(Garchomp), Some(Ninetales), Some(NoMove), Absent),
      DamageReq(Absent, Absent, Some(Ninetales), Some(MoveNamed("Earthquake")), Absent),
      DamageReq(Absent, Some(Garchomp), Some(Ninetales), Absent, Absent),
      DamageReq(Absent, Some(Garchomp), Some(Ninetales), Some(MoveNamed("Struggle Bug")), Absent),
      Some([DamageReq(Absent, Some(Ninetales), Some(Garchomp), Some(MoveNamed("Earthquake")),
                      Absent)[1] EXCEPT !.gen = Some(7)]) }

\* The requests the longer batches are drawn from.
CorePool ==
    { Absent,
      StatsReq(Some(Garchomp), Absent),
      StatsReq(Some(Nameless), Some(TRUE)),
      SpeedReq(Some(Garchomp), Some(Ninetales)),
      DamageReq(Absent, Some(Garchomp), Some(Ninetales), Some(MoveNamed("Earthquake")), Absent),
      DamageReq(Absent, Some(Garchomp), Some(Nameless), Some(MoveNamed("Earthquake")), Absent) }

MaxBatch == 3

MaxMixedBatch == 2

RECURSIVE Batches(_, _)
\* The request lists of length n over a pool.
Batches(pool, n) ==
    IF n = 0 THEN {<<>>}
    ELSE {Append(b, r) : b \in Batches(pool, n - 1), r \in pool}

\* The payload {"requests": "ab"}: a string is iterable, and the loop visits
\* its one-character strings; every property read of such an element gives
\* undefined, as of a request without keys.
StringRequests == [gen |-> Absent, requests |-> Some(<<Some(NoReq), Some(NoReq)>>)]

\* Payloads that are not of the shape {gen?, requests?: [...]}.  json is what
\* reading gen and requests of the parsed value gives: a bare number ("scalar")
\* has neither property.
OddInputs ==
    { [text |-> t, json |-> EmptyPayload] : t \in {"garbage", "null", "scalar"} }
    \cup { [text |-> "scalar requests", json |-> [gen |-> g, requests |-> Some(5)]] :
             g \in {Absent, Some(8)} }
    \cup { [text |-> "string requests", json |-> StringRequests] }

\* What standard input may hold: nothing, blanks, text that is not JSON, the
\* JSON text null, a bare number, an object whose requests is a number (with
\* and without a generation) or a string, an object without requests, and
\* batches with and without a generation.
Inputs ==
    { [text |-> t, json |-> EmptyPayload] : t \in {"empty", "blank", "json"} }
    \cup OddInputs
    \cup { [text |-> "json", json |-> [gen |-> g, requests |-> Some(b)]] :
             g \in {Absent, Some(8)},
             b \in UNION ({Batches(ReqPool, n) : n \in 0 .. MaxMixedBatch}
                          \cup {Batches(CorePool, n) : n \in 0 .. MaxBatch}) }

Init == \E input \in Inputs : Start(input)

Spec == Init /\ [][Next]_vars

\* The requests of the runs followed to their end: one that succeeds, one
\* that fails validation and one that is null.
FairPool ==
    { Absent,
      StatsReq(Some(Garchomp), Absent),
      StatsReq(Some(Nameless), Some(TRUE)) }

MaxFairBatch == 3

FairInputs ==
    { [text |-> t, json |-> EmptyPayload] : t \in {"empty", "blank", "json"} }
    \cup OddInputs
    \cup { [text |-> "json", json |-> [gen |-> g, requests |-> Some(b)]] :
              g \in {Absent, Some(8)},
              b \in UNION { Batches(FairPool, n) : n \in 0 .. MaxFairBatch } }

InitFair == \E input \in FairInputs : Start(input)

\* The process is the only thread and runs to completion: a step that can be
\* taken is taken.
SpecFair == InitFair /\ [][Next]_vars /\ WF_vars(Next)

\* The current version, then the earlier version, on the same input.
SpecCompat == Init /\ [][NextCompat]_vars

(***************************************************************************)
(* Inputs for the speed resolver: one speed request whose two sides range  *)
(* over investment profiles, levels, boost stages and the actualStats flag.*)
(***************************************************************************)
\* nature, evs, ivs as the caller may supply them.
Profiles ==
    { [nature |-> Absent, evs |-> Absent, ivs |-> Absent],
      [nature |-> Some("Jolly"), evs |-> Some(FullEVs), ivs |-> Some(FullIVs)],
      [nature |-> Some("Brave"), evs |-> Absent, ivs |-> Some([spe |-> 0])],
      [nature |-> Absent, evs |-> Some([atk |-> 252]), ivs |-> Absent],
      [nature |-> Some("Jolly"), evs |-> Some([spe |-> 252]), ivs |-> Some([spe |-> 31])] }

Levels == {Absent, Some(50), Some(100)}

Boosts == {Absent, Some([spe |-> 2]), Some([spe |-> -1])}

Sides ==
    { Some([NoMon EXCEPT !.name = Some(n), !.level = l, !.nature = p.nature,
                         !.evs = p.evs, !.ivs = p.ivs, !.boosts = b, !.actualStats = a]) :
        n \in {"Garchomp", "Ninetales-Alola"}, l \in Levels, p \in Profiles,
        b \in Boosts, a \in {Absent, Some(TRUE)} }
    \cup { Absent,
           Null,
           Some(Nameless),
           Some([Nameless EXCEPT !.actualStats = Some(TRUE)]),
           Some(Named("Missingno")),
           Some([Garchomp EXCEPT !.item = Some("Choice Scarf"), !.ability = Some("Rough Skin"),
                                 !.actualStats = Some(FALSE), !.nature = Some("Brave")]) }

SpeedInputs ==
    { [text |-> "json", json |-> [gen |-> Absent, requests |-> Some(<<SpeedReq(a, b)>>)]] :
        a \in Sides, b \in Sides }

InitSpeed == \E input \in SpeedInputs : Start(input)

SpecSpeed == InitSpeed /\ [][Next]_vars

(***************************************************************************)
(* Inputs for the stat query: one stats request, over investment profiles, *)
(* levels, boost stages, the fields the maximum-speed builder drops, and   *)
(* the maxSpeed flag.                                                      *)
(***************************************************************************)
StatBoosts == {Absent, Some([spe |-> 2]), Some([atk |-> 1, spe |-> -1])}

\* teraType, moves, curHP and originalCurHP as the caller may supply them.
Extras ==
    { [teraType |-> Absent, moves |-> Absent, curHP |-> Absent, originalCurHP |-> Absent],
      [teraType |-> Some("Fire"), moves |-> Some(<<"Earthquake">>), curHP |-> Some(10),
       originalCurHP |-> Some(20)] }

StatMons ==
    { Some([NoMon EXCEPT !.name = Some(n), !.level = l, !.nature = p.nature,
                         !.evs = p.evs, !.ivs = p.ivs, !.boosts = b,
                         !.teraType = x.teraType, !.moves = x.moves, !.curHP = x.curHP,
                         !.originalCurHP = x.originalCurHP]) :
        n \in {"Garchomp", "Ninetales-Alola"}, l \in Levels, p \in Profiles,
        b \in StatBoosts, x \in Extras }
    \cup { Absent,
           Some(Nameless),
           Some(Named("Missingno")),
           Some([Garchomp EXCEPT !.nature = Some("Speedy")]),
           Some([Garchomp EXCEPT !.item = Some("Choice Scarf"), !.ability = Some("Rough Skin"),
                                 !.status = Some("par"), !.level = Some(0)]) }

StatsInputs ==
    { [text |-> "json", json |-> [gen |-> Absent, requests |-> Some(<<StatsReq(mon, x)>>)]] :
        mon \in StatMons, x \in {Absent, Some(TRUE), Some(FALSE)} }

InitStats == \E input \in StatsInputs : Start(input)

SpecStats == InitStats /\ [][Next]_vars

(***************************************************************************)
(* Inputs for the damage resolver: one damage request.                     *)
(***************************************************************************)
DamageInputs ==
    { [text |-> "json",
       json |-> [gen |-> Absent,
                 requests |-> Some(<<Some([DamageReq(t, a, d, m, f)[1] EXCEPT !.maxSpeed = x])>>)]] :
        t \in {Absent, Some("damage")},
        a \in Sides,
        d \in {Some(Ninetales), Some(Invested), Some(Nameless)},
        m \in {Some(MoveNamed("Earthquake")), Some(NoMove), Some(MoveNamed("Struggle Bug"))},
        f \in {Absent, Some(ReflectField)},
        x \in {Absent, Some(TRUE)} }

InitDamage == \E input \in DamageInputs : Start(input)

SpecDamage == InitDamage /\ [][Next]_vars

\* The conditions a side of the field may carry.
SideConditions ==
    { Absent, Some(EmptySide), Some([isReflect |-> TRUE]),
      Some([isTailwind |-> TRUE, isReflect |-> FALSE]) }

\* The top-level keys of a field other than its sides.
FieldTops ==
    { EmptySide, [gameType |-> "Doubles"], [weather |-> "Sun"],
      [gameType |-> "Doubles", weather |-> "Sun"] }

\* The fields of a damage request: none, and every combination of top-level
\* keys and side conditions.
Fields ==
    {Absent} \cup { Some([top |-> t, attackerSide |-> a, defenderSide |-> d]) :
                      t \in FieldTops, a \in SideConditions, d \in SideConditions }

\* One damage request over each field.
FieldInputs ==
    { [text |-> "json",
       json |-> [gen |-> Absent,
                 requests |-> Some(<<DamageReq(Absent, Some(Garchomp), Some(Ninetales), m, f)>>)]] :
        m \in {Some(MoveNamed("Earthquake")), Some(MoveNamed("Ice Beam"))},
        f \in Fields }

InitField == \E input \in FieldInputs : Start(input)

SpecField == InitField /\ [][Next]_vars

(***************************************************************************)
(* Properties                                                              *)
(***************************************************************************)
Handlers == {"getStats", "compareSpeed", "calcOne"}

Builders == {"buildPokemon", "buildMaxSpeedPokemon", "buildMove"}

\* The calls of one request's log made to the functions of a set.
CallsTo(log, fns) == SelectSeq(log, LAMBDA c : c.fn \in fns)

\* The request list the payload on standard input carries.
Supplied == OrObj(rawInput.json.requests, <<>>)

IsStats(r) == Has(r) /\ r[1].type = Some("stats")

IsSpeed(r) == Has(r) /\ r[1].type = Some("speed")

IsDamage(r) == Has(r) /\ r[1].type # Some("stats") /\ r[1].type # Some("speed")

\* C1: when the run is done, the one payload written carries a results list as
\* long as the supplied request list, and its element i is the outcome of
\* handling request i (the handler entered for position i was given request i).
OrderPreserved ==
    pc = "done" =>
        /\ Len(stdout) = 1
        /\ Len(stdout[1].results) = Len(Supplied)
        /\ Len(calls) = Len(Supplied)
        /\ \A i \in 1 .. Len(Supplied) :
              /\ stdout[1].results[i] = ResultOf(Handle(gen, Supplied[i]))
              /\ Has(Supplied[i]) => /\ calls[i] # <<>>
                                     /\ calls[i][1].arg = Supplied[i][1]

\* A finished batch of three distinct requests, succeeding and failing.
OrderPreservedWitness ==
    /\ pc = "done"
    /\ Len(requests) = 3
    /\ requests[1] # requests[2] /\ requests[2] # requests[3] /\ requests[1] # requests[3]
    /\ stdout[1].results[1].ok
    /\ ~stdout[1].results[2].ok
    /\ stdout[1].results[3].ok

\* A combatant description the builders and the Oracle accept.
ValidMon(d) ==
    /\ Has(d)
    /\ TruthyStr(d[1].name)
    /\ d[1].name[1] \in DOMAIN Species
    /\ Has(d[1].nature) => d[1].nature[1] \in DOMAIN Natures

ValidMove(m) == Has(m) /\ TruthyStr(m[1].name) /\ m[1].name[1] \in DOMAIN Moves

\* A combatant or move description that is an object without a name.
Unnamed(d) == Has(d) /\ ~TruthyStr(d[1].name)

\* A request whose every entity is valid.
ValidRequest(r) ==
    /\ Has(r)
    /\ IF IsStats(r) THEN ValidMon(r[1].pokemon)
       ELSE IF IsSpeed(r) THEN ValidMon(r[1].pokemon1) /\ ValidMon(r[1].pokemon2)
       ELSE ValidMon(r[1].attacker) /\ ValidMon(r[1].defender) /\ ValidMove(r[1].move)

\* A request that is valid but for entities that lack their name.
LacksName(r) ==
    /\ Has(r)
    /\ ~ValidRequest(r)
    /\ IF IsStats(r) THEN Unnamed(r[1].pokemon)
       ELSE IF IsSpeed(r)
       THEN /\ ValidMon(r[1].pokemon1) \/ Unnamed(r[1].pokemon1)
            /\ ValidMon(r[1].pokemon2) \/ Unnamed(r[1].pokemon2)
       ELSE /\ ValidMon(r[1].attacker) \/ Unnamed(r[1].attacker)
            /\ ValidMon(r[1].defender) \/ Unnamed(r[1].defender)
            /\ ValidMove(r[1].move) \/ Unnamed(r[1].move)

\* C2: in a finished run every request was attempted (its handler entered) and
\* reported, whatever failed elsewhere; and a batch of one request lacking a
\* name among otherwise valid requests has ok:false at that position and
\* ok:true at every other position.
FaultIsolation ==
    pc = "done" =>
        /\ Len(results) = Len(Supplied)
        /\ \A i \in 1 .. Len(Supplied) :
              Has(Supplied[i]) =>
                 /\ i \in DOMAIN calls
                 /\ calls[i] # <<>>
                 /\ calls[i][1].fn \in Handlers
                 /\ calls[i][1].arg = Supplied[i][1]
        /\ \A j \in 1 .. Len(Supplied) :
              ( /\ LacksName(Supplied[j])
                /\ \A i \in 1 .. Len(Supplied) : i # j => ValidRequest(Supplied[i]) )
              => /\ ~results[j].ok
                 /\ \A i \in 1 .. Len(results) : i # j => results[i].ok

\* A finished batch of three whose second request lacks a name.
FaultIsolationWitness ==
    /\ pc = "done"
    /\ Len(requests) = 3
    /\ ValidRequest(requests[1]) /\ LacksName(requests[2]) /\ ValidRequest(requests[3])
    /\ results[1].ok /\ ~results[2].ok /\ results[3].ok

\* C3: every processed request has exactly one result element, of the shape
\* {ok:true, result} or {ok:false, error}, ok:false exactly when its handling
\* threw; a failure inside a request never ends the process.
OneResultPerRequest ==
    /\ pc \in {"loop", "done"} => Len(results) = pos - 1
    /\ pc = "crashed" => results = <<>> /\ calls = <<>>
    /\ pc = "done" => Len(results) = Len(Supplied) /\ exitCode = Some(0)
    /\ \A i \in 1 .. Len(results) :
          LET r == results[i]
              outcome == Handle(gen, requests[i])
          IN  /\ \/ r.ok = TRUE /\ DOMAIN r = {"ok", "result"}
                 \/ r.ok = FALSE /\ DOMAIN r = {"ok", "error"}
              /\ r.ok = ~outcome.thrown
              /\ ~r.ok => r.error = outcome.msg

\* A finished batch holding a null element and a speed request without pokemon2.
OneResultPerRequestWitness ==
    /\ pc = "done"
    /\ Len(requests) = 2
    /\ ~Has(requests[1])
    /\ IsSpeed(requests[2]) /\ ~Has(requests[2][1].pokemon2)
    /\ results[1] = [ok |-> FALSE, error |-> TypeErrorMsg(Null, "type")]
    /\ results[2] = [ok |-> FALSE, error |-> TypeErrorMsg(Absent, "actualStats")]

\* C4: a request tagged "stats" enters getStats, one tagged "speed" enters
\* compareSpeed, any other (or untagged) request enters calcOne; exactly one
\* handler is entered per request, with that request.
RoutedByType ==
    \A i \in 1 .. Len(results) :
        Has(requests[i]) =>
            LET entered == CallsTo(calls[i], Handlers)
                tag == requests[i][1].type
            IN  /\ Len(entered) = 1
                /\ entered[1].arg = requests[i][1]
                /\ entered[1].fn = IF tag = Some("stats") THEN "getStats"
                                   ELSE IF tag = Some("speed") THEN "compareSpeed"
                                   ELSE "calcOne"
                /\ results[i].ok =>
                      DOMAIN results[i].result =
                          IF tag = Some("stats")
                          THEN {"hp", "atk", "def", "spa", "spd", "spe", "boostedSpe",
                                "species", "level"}
                          ELSE IF tag = Some("speed") THEN {"pokemon1", "pokemon2", "verdict"}
                          ELSE {"damage", "range", "desc", "full_desc", "ko",
                                "attacker_stats", "defender_stats"}

\* A request tagged "Stats" handled as a damage request, next to a stats request.
RoutedByTypeWitness ==
    /\ Len(results) = 2
    /\ Has(requests[1]) /\ requests[1][1].type = Some("Stats")
    /\ results[1].ok /\ "damage" \in DOMAIN results[1].result
    /\ Has(requests[2]) /\ requests[2][1].type = Some("stats")
    /\ results[2].ok /\ "boostedSpe" \in DOMAIN results[2].result

\* C5: the Oracle's Pokemon and Move constructors are only ever invoked with
\* the non-empty name of the description handed to the builder; a builder
\* handed no description, or one without a name, invokes nothing further and
\* the request yields ok:false with the builder's message and no result.
NamelessNeverBuilt ==
    \A i \in 1 .. Len(results) :
        \A k \in 1 .. Len(calls[i]) :
            LET c == calls[i][k]
            IN  /\ c.fn \in {"Pokemon", "Move"} =>
                      /\ c.arg.name # ""
                      /\ k > 1
                      /\ calls[i][k - 1].fn \in Builders
                      /\ calls[i][k - 1].fn = "buildMove" <=> c.fn = "Move"
                      /\ calls[i][k - 1].arg[1].name = Some(c.arg.name)
                /\ (c.fn \in Builders /\ (~Has(c.arg) \/ ~TruthyStr(c.arg[1].name))) =>
                      /\ k = Len(calls[i])
                      /\ results[i] =
                           [ok |-> FALSE,
                            error |-> IF c.fn = "buildMove" THEN MissingMoveName
                                      ELSE MissingPokemonName]

\* Two processed requests: a maximum-speed build handed a description without
\* a name, and a damage request whose move has no name.
NamelessNeverBuiltWitness ==
    /\ Len(results) = 2
    /\ Len(calls[1]) = 2
    /\ calls[1][2].fn = "buildMaxSpeedPokemon" /\ Unnamed(calls[1][2].arg)
    /\ results[1] = [ok |-> FALSE, error |-> MissingPokemonName]
    /\ calls[2] # <<>>
    /\ calls[2][Len(calls[2])].fn = "buildMove" /\ Unnamed(calls[2][Len(calls[2])].arg)
    /\ results[2] = [ok |-> FALSE, error |-> MissingMoveName]

\* C6: in every successful speed result the verdict is POKEMON1_FASTER exactly
\* when side 1's reported effective speed is greater, POKEMON2_FASTER exactly
\* when side 2's is greater and SPEED_TIE exactly when the two are equal.
VerdictBySpeed ==
    \A i \in 1 .. Len(results) :
        (IsSpeed(requests[i]) /\ results[i].ok) =>
            LET r == results[i].result
                spe1 == r.pokemon1.effectiveSpe
                spe2 == r.pokemon2.effectiveSpe
            IN  /\ r.verdict \in {"POKEMON1_FASTER", "POKEMON2_FASTER", "SPEED_TIE"}
                /\ r.verdict = "POKEMON1_FASTER" <=> spe1 > spe2
                /\ r.verdict = "POKEMON2_FASTER" <=> spe2 > spe1
                /\ r.verdict = "SPEED_TIE" <=> spe1 = spe2

\* Equal effective speeds with an item and an ability on side 1 only: a tie.
VerdictBySpeedWitness ==
    /\ Len(results) = 1
    /\ IsSpeed(requests[1]) /\ results[1].ok
    /\ requests[1][1].pokemon1[1].item = Some("Choice Scarf")
    /\ requests[1][1].pokemon2[1].item = Absent
    /\ results[1].result.pokemon1.effectiveSpe = results[1].result.pokemon2.effectiveSpe
    /\ results[1].result.verdict = "SPEED_TIE"

\* The explicit form of a side: actualStats set, the maximum-speed nature,
\* EVs of 252 in speed alone, IVs of 31 everywhere, a given level, and the
\* side's own species and boosts.
ExplicitMaxOf(side, explicit, level) ==
    /\ Has(side) /\ Has(explicit)
    /\ ~TruthyFlag(side[1].actualStats)
    /\ TruthyFlag(explicit[1].actualStats)
    /\ explicit[1].name = side[1].name
    /\ explicit[1].boosts = side[1].boosts
    /\ explicit[1].nature = Some("Jolly")
    /\ explicit[1].evs = Some(FullEVs)
    /\ explicit[1].ivs = Some(FullIVs)
    /\ explicit[1].level = Some(level)

\* C7 as stated: a side without the actualStats flag has the effective speed
\* of its explicit form at level 100.
MaxDefaultAtLevel100 ==
    \A i \in 1 .. Len(results) :
        ( /\ IsSpeed(requests[i]) /\ results[i].ok
          /\ ExplicitMaxOf(requests[i][1].pokemon1, requests[i][1].pokemon2, 100) )
        => results[i].result.pokemon1.effectiveSpe = results[i].result.pokemon2.effectiveSpe

\* C7 amended: a side without the actualStats flag has the effective (and raw)
\* speed of its explicit form at the side's own level when it supplies one
\* (a non-zero level), and at level 100 when it supplies none.
MaxDefaultAtOwnLevel ==
    \A i \in 1 .. Len(results) :
        ( /\ IsSpeed(requests[i]) /\ results[i].ok
          /\ Has(requests[i][1].pokemon1)
          /\ ExplicitMaxOf(requests[i][1].pokemon1, requests[i][1].pokemon2,
                           OrNum(requests[i][1].pokemon1[1].level, 100)) )
        => /\ results[i].result.pokemon1.effectiveSpe = results[i].result.pokemon2.effectiveSpe
           /\ results[i].result.pokemon1.rawSpe = results[i].result.pokemon2.rawSpe
           /\ results[i].result.verdict = "SPEED_TIE"

\* A boosted level-50 side without the flag against its explicit form at level 50.
MaxDefaultAtOwnLevelWitness ==
    /\ Len(results) = 1
    /\ IsSpeed(requests[1]) /\ results[1].ok
    /\ ExplicitMaxOf(requests[1][1].pokemon1, requests[1][1].pokemon2, 50)
    /\ requests[1][1].pokemon1[1].level = Some(50)
    /\ requests[1][1].pokemon1[1].boosts = Some([spe |-> 2])
    /\ requests[1][1].pokemon1[1].nature = Some("Brave")
    /\ results[1].result.pokemon1.effectiveSpe = results[1].result.pokemon2.effectiveSpe

\* The combatants the Oracle built for one request, in order.
BuiltFor(i) == CallsTo(calls[i], {"PokemonBuilt"})

\* C8: a speed request whose two built combatants agree on species, level,
\* nature, EVs, IVs and speed boost stage has the verdict SPEED_TIE.
TieOnIdentical ==
    \A i \in 1 .. Len(results) :
        (IsSpeed(requests[i]) /\ results[i].ok) =>
            LET a == BuiltFor(i)[1].arg
                b == BuiltFor(i)[2].arg
            IN  ( /\ a.species.name = b.species.name
                  /\ a.level = b.level
                  /\ a.nature = b.nature
                  /\ a.evs = b.evs
                  /\ a.ivs = b.ivs
                  /\ a.boosts.spe = b.boosts.spe )
                => results[i].result.verdict = "SPEED_TIE"

\* Identical boosted combatants, one built in each construction mode.
TieOnIdenticalWitness ==
    /\ Len(results) = 1
    /\ IsSpeed(requests[1]) /\ results[1].ok
    /\ CallsTo(calls[1], Builders)[1].fn = "buildPokemon"
    /\ CallsTo(calls[1], Builders)[2].fn = "buildMaxSpeedPokemon"
    /\ BuiltFor(1)[1].arg = BuiltFor(1)[2].arg
    /\ BuiltFor(1)[1].arg.boosts.spe = 2
    /\ BuiltFor(1)[1].arg.rawStats.spe # BuiltFor(1)[1].arg.stats.spe
    /\ results[1].result.verdict = "SPEED_TIE"

\* The builder call compareSpeed makes for a side: with the flag set,
\* buildPokemon on the side with evs and ivs defaulted where not supplied;
\* without it, buildMaxSpeedPokemon on the side as it is.
BuilderAsFlagged(side, build) ==
    IF TruthyFlag(side[1].actualStats)
    THEN /\ build.fn = "buildPokemon"
         /\ build.arg =
              Some([side[1] EXCEPT
                      !.evs = IF Has(side[1].evs) THEN side[1].evs ELSE Some([spe |-> 252]),
                      !.ivs = IF Has(side[1].ivs) THEN side[1].ivs ELSE Some([spe |-> 31])])
    ELSE /\ build.fn = "buildMaxSpeedPokemon"
         /\ build.arg = side

\* The investment the Oracle's constructor is given for a side.
InvestmentAsFlagged(side, ctor) ==
    IF TruthyFlag(side[1].actualStats)
    THEN /\ ctor.arg.options.evs = IF Has(side[1].evs) THEN side[1].evs ELSE Some([spe |-> 252])
         /\ ctor.arg.options.ivs = IF Has(side[1].ivs) THEN side[1].ivs ELSE Some([spe |-> 31])
         /\ ctor.arg.options.nature = side[1].nature
         /\ ctor.arg.options.level = side[1].level
    ELSE /\ ctor.arg.options.evs = Some(FullEVs)
         /\ ctor.arg.options.ivs = Some(FullIVs)
         /\ ctor.arg.options.nature = Some("Jolly")

\* C9: in a speed request each side's construction mode follows that side's
\* own actualStats flag alone: a flagged side goes through buildPokemon with
\* evs (ivs) defaulted only when it supplies none, an unflagged side through
\* buildMaxSpeedPokemon with the maximum investment whatever it supplies.
ModePerSide ==
    \A i \in 1 .. Len(results) :
        (IsSpeed(requests[i]) /\ Has(requests[i][1].pokemon1)) =>
            LET side1 == requests[i][1].pokemon1
                side2 == requests[i][1].pokemon2
                builds == CallsTo(calls[i], Builders)
                ctors == CallsTo(calls[i], {"Pokemon"})
            IN  /\ Len(builds) >= 1
                /\ BuilderAsFlagged(side1, builds[1])
                /\ TruthyStr(side1[1].name) =>
                      Len(ctors) >= 1 /\ InvestmentAsFlagged(side1, ctors[1])
                /\ (Len(BuiltFor(i)) >= 1 /\ Has(side2)) =>
                      /\ Len(builds) = 2
                      /\ BuilderAsFlagged(side2, builds[2])
                      /\ TruthyStr(side2[1].name) =>
                            Len(ctors) = 2 /\ InvestmentAsFlagged(side2, ctors[2])

\* A flagged side 1 supplying ivs but no evs against an unflagged side 2 that
\* supplies its own nature, evs and ivs.
ModePerSideWitness ==
    /\ Len(results) = 1
    /\ IsSpeed(requests[1]) /\ results[1].ok
    /\ TruthyFlag(requests[1][1].pokemon1[1].actualStats)
    /\ requests[1][1].pokemon1[1].evs = Absent
    /\ requests[1][1].pokemon1[1].ivs = Some([spe |-> 0])
    /\ ~TruthyFlag(requests[1][1].pokemon2[1].actualStats)
    /\ requests[1][1].pokemon2[1].nature = Some("Brave")
    /\ requests[1][1].pokemon2[1].ivs = Some([spe |-> 0])
    /\ CallsTo(calls[1], {"Pokemon"})[1].arg.options.evs = Some([spe |-> 252])
    /\ CallsTo(calls[1], {"Pokemon"})[1].arg.options.ivs = Some([spe |-> 0])
    /\ CallsTo(calls[1], {"Pokemon"})[2].arg.options.ivs = Some(FullIVs)

\* C10: a damage request never goes through buildMaxSpeedPokemon: attacker and
\* defender are handed to buildPokemon as supplied, and the Oracle's
\* constructor receives their nature, evs, ivs and level unchanged, whatever
\* maxSpeed or actualStats fields the request carries.
DamageBuildsActual ==
    \A i \in 1 .. Len(results) :
        IsDamage(requests[i]) =>
            LET builds == CallsTo(calls[i], {"buildPokemon", "buildMaxSpeedPokemon"})
                ctors == CallsTo(calls[i], {"Pokemon"})
                given == <<requests[i][1].attacker, requests[i][1].defender>>
            IN  /\ Len(builds) >= 1
                /\ results[i].ok => Len(builds) = 2 /\ Len(ctors) = 2
                /\ \A n \in 1 .. Len(builds) :
                      /\ builds[n].fn = "buildPokemon"
                      /\ builds[n].arg = given[n]
                /\ \A n \in 1 .. Len(ctors) :
                      /\ ctors[n].arg.name = given[n][1].name[1]
                      /\ ctors[n].arg.options.nature = given[n][1].nature
                      /\ ctors[n].arg.options.evs = given[n][1].evs
                      /\ ctors[n].arg.options.ivs = given[n][1].ivs
                      /\ ctors[n].arg.options.level = given[n][1].level

\* A successful damage request carrying maxSpeed, whose unflagged attacker
\* supplies a level, a speed-lowering nature and no evs.
DamageBuildsActualWitness ==
    /\ Len(results) = 1
    /\ IsDamage(requests[1]) /\ results[1].ok
    /\ TruthyFlag(requests[1][1].maxSpeed)
    /\ ~TruthyFlag(requests[1][1].attacker[1].actualStats)
    /\ requests[1][1].attacker[1].level = Some(50)
    /\ requests[1][1].attacker[1].nature = Some("Brave")
    /\ requests[1][1].attacker[1].evs = Absent
    /\ BuiltFor(1)[1].arg.nature = "Brave"
    /\ BuiltFor(1)[1].arg.evs.spe = 0

(***************************************************************************)
(* Output, termination and isolation of the batch                          *)
(***************************************************************************)
\* C11: the process writes to standard output at most once, the one payload
\* is the complete results list, and it is written only after the last
\* request has been processed: nothing is on standard output while a request
\* is still unprocessed.
SingleWriteAtEnd ==
    /\ Len(stdout) <= 1
    /\ pc # "done" => stdout = <<>>
    /\ pc = "done" => /\ stdout = <<[results |-> results]>>
                      /\ pos > Len(requests)
                      /\ Len(stdout[1].results) = Len(Supplied)
                      /\ Len(calls) = Len(Supplied)

\* A finished run of three requests, a failed one among them, with the one
\* payload of three elements on standard output.
SingleWriteAtEndWitness ==
    /\ pc = "done"
    /\ Len(Supplied) = 3
    /\ Len(stdout) = 1
    /\ Len(stdout[1].results) = 3
    /\ ~stdout[1].results[2].ok
    /\ stdout[1].results[3].ok

\* Standard input that JSON.parse rejects.
Unparseable == rawInput.text = "garbage"

\* Standard input that ends the run before the loop: text that is not JSON
\* (line 140), the JSON value null (line 141), and an object whose requests
\* is a value other than 0, false, "" and null that cannot be iterated (line
\* 322).
Malformed == rawInput.text \in {"garbage", "null", "scalar requests"}

\* Standard input that parses to a value of another shape than the payload's
\* and still goes through the loop.
OddShaped == rawInput.text \in {"scalar", "string requests"}

\* C12 as stated: a payload that cannot be parsed ends the run with nothing
\* written and no request processed, and a run that aborted was given a
\* payload that cannot be parsed.
AbortOnlyOnParseFailure ==
    /\ Unparseable => /\ pc \in {"read", "crashed"}
                      /\ stdout = <<>>
                      /\ results = <<>>
                      /\ calls = <<>>
    /\ pc = "crashed" => Unparseable

\* C12, amended: text that is not JSON, the JSON value null and a requests
\* value that cannot be iterated end the run with a failure status, nothing
\* written and no request processed; nothing else aborts a batch: a run that
\* aborted was given one of the three, whatever its requests were, and a
\* payload of another wrong shape ends with a results payload, a bare number
\* with the empty list and requests given as a string with one failed
\* element per character.
AbortOnlyOnProtocolError ==
    /\ Malformed => /\ pc \in {"read", "setup", "crashed"}
                    /\ stdout = <<>>
                    /\ results = <<>>
                    /\ calls = <<>>
                    /\ exitCode \in {Absent, Some(1)}
    /\ pc = "crashed" => Malformed /\ exitCode = Some(1)
    /\ exitCode = Some(1) => pc = "crashed"
    /\ (OddShaped /\ pc = "done") =>
          /\ exitCode = Some(0)
          /\ Len(stdout) = 1
          /\ Len(stdout[1].results) = (IF rawInput.text = "scalar" THEN 0 ELSE 2)
          /\ \A i \in 1 .. Len(stdout[1].results) :
                stdout[1].results[i] = [ok |-> FALSE, error |-> MissingPokemonName]

\* The run given the JSON value null has ended at the read of its gen, with
\* nothing written.
AbortOnlyOnProtocolErrorWitness ==
    /\ rawInput.text = "null"
    /\ pc = "crashed"
    /\ exitCode = Some(1)
    /\ payload = Absent
    /\ stdout = <<>>

\* C13: a run given a payload that parses, with a list of requests or none,
\* ends normally: it reaches the exit with the success status and its one
\* output written, whatever number of its requests failed, and a failed
\* request never yields a failure status.
TerminatesNormally ==
    /\ (~Malformed) ~> (pc = "done" /\ exitCode = Some(0) /\ Len(stdout) = 1)
    /\ [](results # <<>> => exitCode \in {Absent, Some(0)})

\* A finished run of three requests that all failed, with the success status.
TerminatesNormallyWitness ==
    /\ pc = "done"
    /\ exitCode = Some(0)
    /\ Len(stdout) = 1
    /\ Len(results) = 3
    /\ \A i \in 1 .. 3 : ~results[i].ok

\* The payloads of an empty batch: no text, blank text, and an object
\* without a requests key.
EmptyBatch ==
    \/ rawInput.text \in {"empty", "blank"}
    \/ rawInput.text = "json" /\ ~Has(rawInput.json.requests)

\* C14: an object without requests yields {results: []}, and empty or blank
\* standard input is read as the object {} and yields the same, not an error.
EmptyBatchYieldsEmptyResults ==
    EmptyBatch =>
        /\ pc # "crashed"
        /\ results = <<>>
        /\ rawInput.text \in {"empty", "blank"} /\ pc # "read" => payload = Some(EmptyPayload)
        /\ pc \in {"loop", "done"} => requests = <<>>
        /\ pc = "done" => stdout = <<[results |-> <<>>]>> /\ exitCode = Some(0)

\* The run given blank text has written the empty results list.
EmptyBatchYieldsEmptyResultsWitness ==
    /\ rawInput.text = "blank"
    /\ pc = "done"
    /\ stdout = <<[results |-> <<>>]>>

\* The generation the top-level payload asks for: payload.gen || 9, of the
\* payload that line 140 gives ({} for empty text, the parsed text otherwise).
TopLevelGen ==
    LET parsed == IF rawInput.text \in {"empty", "blank"} THEN EmptyPayload ELSE rawInput.json
    IN  OrNum(parsed.gen, DefaultGen)

\* The calls of request i that are given the generation.
GenCalls(i) == CallsTo(calls[i], {"Pokemon", "Move", "calculate"})

\* C15: the generation is fixed from the top-level gen (9 when absent) before
\* any request is handled and keeps that value to the end of the run; every
\* entity constructed and every damage resolution of every request is given
\* it; a gen inside a request changes neither the calls nor the result.
GenResolvedOnce ==
    /\ pc = "read" => calls = <<>> /\ results = <<>>
    /\ pc \in {"setup", "loop", "done"} => gen = TopLevelGen
    /\ (pc = "crashed" /\ rawInput.text = "scalar requests") => gen = TopLevelGen
    /\ \A i \in 1 .. Len(calls) :
          /\ \A n \in 1 .. Len(GenCalls(i)) : GenCalls(i)[n].arg.gen = TopLevelGen
          /\ Has(requests[i]) =>
                results[i] = ResultOf(Handle(TopLevelGen, Some([requests[i][1] EXCEPT !.gen = Absent])))

\* A batch under generation 8 whose damage request asks for generation 7 and
\* was resolved under generation 8.
GenResolvedOnceWitness ==
    /\ pc = "done"
    /\ rawInput.json.gen = Some(8)
    /\ Len(results) >= 1
    /\ Has(requests[1]) /\ requests[1][1].gen = Some(7)
    /\ results[1].ok
    /\ Len(GenCalls(1)) = 4
    /\ GenCalls(1)[4].fn = "calculate" /\ GenCalls(1)[4].arg.gen = 8

\* C17: the element at position i, and the calls made for it, are those of
\* handling requests[i] alone under the resolved generation, whatever the
\* other requests of the batch are and however they ended; equal requests of
\* a batch have equal results.
NoSharedState ==
    /\ \A i \in 1 .. Len(results) :
          /\ results[i] = ResultOf(Handle(TopLevelGen, requests[i]))
          /\ calls[i] = Handle(TopLevelGen, requests[i]).calls
    /\ \A i, j \in 1 .. Len(results) :
          requests[i] = requests[j] => results[i] = results[j] /\ calls[i] = calls[j]

\* A finished batch whose first and third requests are the same and succeed
\* alike on either side of a request that failed.
NoSharedStateWitness ==
    /\ pc = "done"
    /\ Len(results) = 3
    /\ requests[1] = requests[3]
    /\ requests[2] # requests[1]
    /\ ~results[2].ok
    /\ results[1].ok
    /\ results[3] = results[1]

\* C18: the requests are handled one after the other: in the loop, when k
\* requests have been processed the results list has exactly k elements and
\* the calls of exactly k requests have been made; a step adds at most one
\* element, at the end, and leaves the elements already there as they are.
Sequential ==
    /\ [](pc \in {"loop", "done"} =>
            /\ Len(results) = pos - 1
            /\ Len(calls) = pos - 1
            /\ pos - 1 <= Len(requests))
    /\ [][ /\ Len(results') \in {Len(results), Len(results) + 1}
           /\ SubSeq(results', 1, Len(results)) = results
           /\ SubSeq(calls', 1, Len(calls)) = calls ]_vars

\* Two of three requests processed, the first failed, the third not begun.
SequentialWitness ==
    /\ pc = "loop"
    /\ Len(requests) = 3
    /\ pos = 3
    /\ Len(results) = 2
    /\ ~results[1].ok /\ results[2].ok
    /\ stdout = <<>>

(***************************************************************************)
(* The field of a damage request                                           *)
(***************************************************************************)
\* The field request i supplies, and the options its Field was built from.
FieldOf(i) == requests[i][1].field

FieldBuilt(i) == CallsTo(calls[i], {"Field"})

DefaultField ==
    [gameType |-> "Singles", attackerSide |-> EmptySide, defenderSide |-> EmptySide]

\* C19: buildField does not fail: a damage request whose combatants and move
\* are valid succeeds for every field, with one Field built.  Without a field
\* the Field is the default: Singles, two empty sides.  With a field, the
\* built Field has the default's keys and the field's; its game mode is the
\* supplied one, Singles when none is supplied, and every other top-level key
\* has the supplied value.
FieldDefaults ==
    \A i \in 1 .. Len(results) :
        /\ results[i].ok
        /\ Len(CallsTo(calls[i], {"buildField"})) = 1
        /\ CallsTo(calls[i], {"buildField"})[1].arg = FieldOf(i)
        /\ Len(FieldBuilt(i)) = 1
        /\ LET options == FieldBuilt(i)[1].arg
           IN  IF ~Has(FieldOf(i))
               THEN options = DefaultField
               ELSE LET top == FieldOf(i)[1].top
                    IN  /\ DOMAIN options = DOMAIN DefaultField \cup DOMAIN top
                        /\ options.gameType = IF "gameType" \in DOMAIN top
                                              THEN top.gameType ELSE "Singles"
                        /\ \A k \in DOMAIN top : options[k] = top[k]

\* A field supplying the weather and no game mode was built as Singles with
\* that weather; the request succeeded.
FieldDefaultsWitness ==
    /\ Len(results) = 1
    /\ results[1].ok
    /\ Has(FieldOf(1))
    /\ DOMAIN FieldOf(1)[1].top = {"weather"}
    /\ FieldBuilt(1)[1].arg.gameType = "Singles"
    /\ FieldBuilt(1)[1].arg.weather = "Sun"

\* C20: each side of the built Field holds exactly the entries the caller
\* gave for that side, and none when the caller gave none or null for it; no
\* entry of one side appears on the other.
SidesIndependent ==
    \A i \in 1 .. Len(results) :
        /\ Len(FieldBuilt(i)) = 1
        /\ LET options == FieldBuilt(i)[1].arg
           IN  IF ~Has(FieldOf(i))
               THEN options.attackerSide = EmptySide /\ options.defenderSide = EmptySide
               ELSE /\ options.attackerSide = OrObj(FieldOf(i)[1].attackerSide, EmptySide)
                    /\ options.defenderSide = OrObj(FieldOf(i)[1].defenderSide, EmptySide)

\* A field with conditions on the attacker side only: the built attacker side
\* holds them and the built defender side is empty.
SidesIndependentWitness ==
    /\ Len(results) = 1
    /\ Has(FieldOf(1))
    /\ FieldOf(1)[1].attackerSide = Some([isTailwind |-> TRUE, isReflect |-> FALSE])
    /\ FieldOf(1)[1].defenderSide = Absent
    /\ FieldBuilt(1)[1].arg.attackerSide = [isTailwind |-> TRUE, isReflect |-> FALSE]
    /\ FieldBuilt(1)[1].arg.defenderSide = EmptySide

(***************************************************************************)
(* The stat query                                                          *)
(***************************************************************************)
\* The builder calls and the combatants constructed for request i.
BuilderCalls(i) == CallsTo(calls[i], {"buildPokemon", "buildMaxSpeedPokemon"})

Constructed(i) == CallsTo(calls[i], {"Pokemon"})

\* C21: a stats request builds its one combatant with the maximum-speed
\* builder when maxSpeed is true and with the actual-investment builder when
\* maxSpeed is false or absent; the builder is given the request's pokemon,
\* and the combatant constructed has the maximum investment in the first case
\* and the caller's investment in the second.
StatsModeByFlag ==
    \A i \in 1 .. Len(results) :
        IsStats(requests[i]) =>
            LET req == requests[i][1]
            IN  /\ Len(BuilderCalls(i)) = 1
                /\ BuilderCalls(i)[1].arg = req.pokemon
                /\ BuilderCalls(i)[1].fn = IF req.maxSpeed = Some(TRUE)
                                           THEN "buildMaxSpeedPokemon" ELSE "buildPokemon"
                /\ \A n \in 1 .. Len(Constructed(i)) :
                      LET options == Constructed(i)[n].arg.options
                      IN  IF req.maxSpeed = Some(TRUE)
                          THEN /\ options.nature = Some("Jolly")
                               /\ options.evs = Some(FullEVs)
                               /\ options.ivs = Some(FullIVs)
                          ELSE /\ options.nature = req.pokemon[1].nature
                               /\ options.evs = req.pokemon[1].evs
                               /\ options.ivs = req.pokemon[1].ivs
                               /\ options.level = req.pokemon[1].level

\* A successful stats request with maxSpeed false for a combatant with a
\* speed-lowering nature, built as the caller described it.
StatsModeByFlagWitness ==
    /\ Len(results) = 1
    /\ IsStats(requests[1]) /\ results[1].ok
    /\ requests[1][1].maxSpeed = Some(FALSE)
    /\ requests[1][1].pokemon[1].nature = Some("Brave")
    /\ BuilderCalls(1)[1].fn = "buildPokemon"
    /\ BuiltFor(1)[1].arg.nature = "Brave"

\* A combatant the builders reject: no description, or one without a name.
NoName(d) == ~Has(d) \/ ~TruthyStr(d[1].name)

\* The messages with which the Oracle rejects a combatant.
OracleErrors == {"Oracle: unknown species", "Oracle: unknown nature"}

\* The statement that a stats request fails only through the builder's
\* validation: every failed stats request lacks its combatant or its name and
\* reports the missing name.
StatsFailOnlyOnValidation ==
    \A i \in 1 .. Len(results) :
        IsStats(requests[i]) /\ ~results[i].ok =>
            /\ NoName(requests[i][1].pokemon)
            /\ results[i].error = MissingPokemonName

\* C22 (amended): a stats request fails in two ways only: through the
\* builder's validation (combatant or name missing), before the Oracle is
\* called, and through the Oracle rejecting the combatant the builder hands
\* it (a species or nature it does not know); the error reported is that
\* failure's, and every other stats request succeeds.
StatsFailOnValidationOrOracle ==
    \A i \in 1 .. Len(results) :
        IsStats(requests[i]) =>
            LET mon == requests[i][1].pokemon
            IN  IF NoName(mon)
                THEN /\ ~results[i].ok
                     /\ results[i].error = MissingPokemonName
                     /\ Constructed(i) = <<>>
                ELSE /\ Len(Constructed(i)) = 1
                     /\ results[i].ok <=> BuiltFor(i) # <<>>
                     /\ ~results[i].ok => results[i].error \in OracleErrors

\* A stats request naming a species the Oracle does not know failed with the
\* Oracle's error.
StatsFailOnValidationOrOracleWitness ==
    /\ Len(results) = 1
    /\ IsStats(requests[1])
    /\ requests[1][1].pokemon = Some(Named("Missingno"))
    /\ ~results[1].ok
    /\ results[1].error = "Oracle: unknown species"

\* C23: a combatant built in maximum-speed mode has the caller's level when
\* the caller gives one (a non-zero number) and level 100 when the caller
\* gives none; whatever the caller gives, its EVs are 252 in speed and 0
\* elsewhere, its IVs 31 in every stat and its nature the speed-raising one.
MaxSpeedInvestment ==
    \A i \in 1 .. Len(results) :
        (IsStats(requests[i]) /\ requests[i][1].maxSpeed = Some(TRUE)
            /\ ~NoName(requests[i][1].pokemon)) =>
            LET data == requests[i][1].pokemon[1]
                level == IF Has(data.level) /\ data.level[1] # 0 THEN data.level[1] ELSE 100
            IN  /\ Len(Constructed(i)) = 1
                /\ Constructed(i)[1].arg.options.level = Some(level)
                /\ Constructed(i)[1].arg.options.nature = Some("Jolly")
                /\ Constructed(i)[1].arg.options.evs = Some(FullEVs)
                /\ Constructed(i)[1].arg.options.ivs = Some(FullIVs)
                /\ results[i].ok =>
                      /\ BuiltFor(i)[1].arg.level = level
                      /\ BuiltFor(i)[1].arg.nature = "Jolly"
                      /\ BuiltFor(i)[1].arg.evs = FullEVs
                      /\ BuiltFor(i)[1].arg.ivs = FullIVs
                      /\ results[i].result.level = level

\* A level-50 combatant with a speed-lowering nature, no speed EVs and a speed
\* IV of 0, built in maximum-speed mode at level 50 with the full investment.
MaxSpeedInvestmentWitness ==
    /\ Len(results) = 1
    /\ IsStats(requests[1]) /\ results[1].ok
    /\ requests[1][1].maxSpeed = Some(TRUE)
    /\ requests[1][1].pokemon[1].level = Some(50)
    /\ requests[1][1].pokemon[1].nature = Some("Brave")
    /\ requests[1][1].pokemon[1].ivs = Some([spe |-> 0])
    /\ BuiltFor(1)[1].arg.level = 50
    /\ BuiltFor(1)[1].arg.nature = "Jolly"
    /\ BuiltFor(1)[1].arg.evs.spe = 252
    /\ BuiltFor(1)[1].arg.ivs.spe = 31

(***************************************************************************)
(* The speed resolver: boosts, symmetry and the actual-investment defaults *)
(***************************************************************************)
\* The speed boost stage of a side that was built.
StageOf(side) == withDefault(side[1].boosts, 0).spe

\* The two sides of speed request i, and their summaries in its result.
SidesOf(i) == <<requests[i][1].pokemon1, requests[i][1].pokemon2>>

SummariesOf(i) == <<results[i].result.pokemon1, results[i].result.pokemon2>>

\* C24: in the result of a speed request the effective speed of each side is
\* its raw speed under the multiplier of that side's own speed boost stage
\* (the raw speed itself at stage 0, twice the raw speed at stage +2, two
\* thirds of it at stage -1), the stage reported is that stage, and the
\* verdict is the comparison of the two effective speeds.
EffectiveSpeedBoosted ==
    \A i \in 1 .. Len(results) :
        (IsSpeed(requests[i]) /\ results[i].ok) =>
            /\ \A n \in 1 .. 2 :
                  LET stage == StageOf(SidesOf(i)[n])
                      summary == SummariesOf(i)[n]
                  IN  /\ summary.boosts = stage
                      /\ summary.rawSpe = BuiltFor(i)[n].arg.rawStats.spe
                      /\ stage = 0 => summary.effectiveSpe = summary.rawSpe
                      /\ stage = 2 => summary.effectiveSpe = 2 * summary.rawSpe
                      /\ stage = -1 => summary.effectiveSpe = (2 * summary.rawSpe) \div 3
            /\ results[i].result.verdict =
                  Verdict(SummariesOf(i)[1].effectiveSpe, SummariesOf(i)[2].effectiveSpe)

\* Garchomp against Ninetales-Alola at +2, both in maximum-speed mode:
\* Garchomp's 333 against twice Ninetales-Alola's 348.
EffectiveSpeedBoostedWitness ==
    /\ Len(results) = 1
    /\ IsSpeed(requests[1]) /\ results[1].ok
    /\ requests[1][1].pokemon1 = Some(Garchomp)
    /\ requests[1][1].pokemon2 = Some(Ninetales)
    /\ results[1].result.pokemon1.rawSpe = 333
    /\ results[1].result.pokemon1.effectiveSpe = 333
    /\ results[1].result.pokemon2.rawSpe = 348
    /\ results[1].result.pokemon2.effectiveSpe = 696
    /\ results[1].result.verdict = "POKEMON2_FASTER"

\* Stats request i with the boosts of its combatant removed.
WithoutBoosts(i) ==
    [requests[i][1] EXCEPT !.pokemon = Some([requests[i][1].pokemon[1] EXCEPT !.boosts = Absent])]

\* C25: the hp, atk, def, spa, spd and spe of a stats result are the raw
\* stats of the combatant built, the same as for the request without its
\* boosts, and so are the species and the level; the boosts show only in
\* boostedSpe, the raw speed under the multiplier of the speed stage.
BoostsOnlyInBoostedSpe ==
    \A i \in 1 .. Len(results) :
        (IsStats(requests[i]) /\ results[i].ok) =>
            LET unboosted == getStats(TopLevelGen, WithoutBoosts(i))
                stage == StageOf(requests[i][1].pokemon)
            IN  /\ ~unboosted.thrown
                /\ \A s \in Stats :
                      /\ results[i].result[s] = BuiltFor(i)[1].arg.rawStats[s]
                      /\ results[i].result[s] = unboosted.val[s]
                /\ results[i].result.species = unboosted.val.species
                /\ results[i].result.level = unboosted.val.level
                /\ unboosted.val.boostedSpe = unboosted.val.spe
                /\ results[i].result.boostedSpe = getModifiedStat(results[i].result.spe, stage)

\* A combatant at +1 attack and -1 speed: its reported attack and speed are
\* the raw ones and its boosted speed is lower than its speed.
BoostsOnlyInBoostedSpeWitness ==
    /\ Len(results) = 1
    /\ IsStats(requests[1]) /\ results[1].ok
    /\ requests[1][1].pokemon[1].boosts = Some([atk |-> 1, spe |-> -1])
    /\ BuiltFor(1)[1].arg.stats.atk > BuiltFor(1)[1].arg.rawStats.atk
    /\ results[1].result.atk = BuiltFor(1)[1].arg.rawStats.atk
    /\ results[1].result.boostedSpe < results[1].result.spe

(***************************************************************************)
(* The damage resolver: order of the builds                                *)
(***************************************************************************)
\* The steps of calcOne taken for request i, in the order they were taken.
StepsOf(i) == CallsTo(calls[i], {"buildPokemon", "buildMove", "buildField", "calculate"})

\* The order of the steps, and what each is given.
StepOrder == <<"buildPokemon", "buildPokemon", "buildMove", "buildField", "calculate">>

GivenTo(i) ==
    <<requests[i][1].attacker, requests[i][1].defender, requests[i][1].move,
      requests[i][1].field>>

\* What a builder step gives for its argument.
StepOutcome(step) ==
    IF step.fn = "buildPokemon" THEN buildPokemon(TopLevelGen, step.arg)
    ELSE buildMove(TopLevelGen, step.arg)

\* C26: a damage request builds attacker, defender, move and field in that
\* order and resolves the attack last, after all four are built.  When a
\* build fails the steps stop there: nothing later is built, the attack is
\* not resolved, and the error reported is that of the failed build, the
\* first that fails.
BuildOrder ==
    \A i \in 1 .. Len(results) :
        IsDamage(requests[i]) =>
            LET steps == StepsOf(i)
                k == Len(steps)
            IN  /\ k \in 1 .. 5
                /\ \A n \in 1 .. k : steps[n].fn = StepOrder[n]
                /\ \A n \in 1 .. k : n <= 4 => steps[n].arg = GivenTo(i)[n]
                /\ \A n \in 1 .. k - 1 : n <= 3 => ~StepOutcome(steps[n]).thrown
                /\ results[i].ok <=> k = 5
                /\ ~results[i].ok =>
                      /\ k <= 3
                      /\ StepOutcome(steps[k]).thrown
                      /\ results[i].error = StepOutcome(steps[k]).msg
                      /\ CallsTo(calls[i], {"Move", "Field", "calculate"}) =
                            IF k = 3 /\ ~NoName(steps[k].arg)
                            THEN CallsTo(calls[i], {"Move"}) ELSE <<>>
                /\ NoName(requests[i][1].attacker) =>
                      /\ k = 1
                      /\ results[i].error = MissingPokemonName
                      /\ CallsTo(calls[i], {"Pokemon", "Move", "Field", "calculate"}) = <<>>

\* A damage request lacking the attacker's name and the move's name reported
\* the combatant error and built nothing after the attacker.
BuildOrderWitness ==
    /\ Len(results) = 1
    /\ IsDamage(requests[1])
    /\ requests[1][1].attacker = Some(Nameless)
    /\ requests[1][1].move = Some(NoMove)
    /\ ~results[1].ok
    /\ results[1].error = MissingPokemonName
    /\ Len(StepsOf(1)) = 1

\* Speed request i with its two sides exchanged.
Swapped(i) ==
    [requests[i][1] EXCEPT !.pokemon1 = requests[i][1].pokemon2,
                           !.pokemon2 = requests[i][1].pokemon1]

\* The verdict seen from the other side.
Mirror(verdict) ==
    IF verdict = "POKEMON1_FASTER" THEN "POKEMON2_FASTER"
    ELSE IF verdict = "POKEMON2_FASTER" THEN "POKEMON1_FASTER"
    ELSE verdict

\* C27: exchanging the two sides of a speed request, each with its own fields
\* and flag, exchanges the two summaries of the result and mirrors the
\* verdict: POKEMON1_FASTER and POKEMON2_FASTER change places and SPEED_TIE
\* stays; the exchanged request succeeds exactly when the request does.
VerdictAntisymmetric ==
    \A i \in 1 .. Len(results) :
        IsSpeed(requests[i]) =>
            LET swapped == compareSpeed(TopLevelGen, Swapped(i))
            IN  /\ results[i].ok <=> ~swapped.thrown
                /\ results[i].ok =>
                      /\ swapped.val.pokemon1 = results[i].result.pokemon2
                      /\ swapped.val.pokemon2 = results[i].result.pokemon1
                      /\ swapped.val.verdict = Mirror(results[i].result.verdict)

\* A flagged level-50 side slower than an unflagged boosted side: the second
\* is faster, and the first is faster in the exchanged request.
VerdictAntisymmetricWitness ==
    /\ Len(results) = 1
    /\ IsSpeed(requests[1]) /\ results[1].ok
    /\ requests[1][1].pokemon1[1].actualStats = Some(TRUE)
    /\ requests[1][1].pokemon1[1].level = Some(50)
    /\ requests[1][1].pokemon2[1].actualStats = Absent
    /\ requests[1][1].pokemon2[1].boosts = Some([spe |-> 2])
    /\ results[1].result.verdict = "POKEMON2_FASTER"
    /\ compareSpeed(TopLevelGen, Swapped(1)).val.verdict = "POKEMON1_FASTER"

\* C28: for a side of a speed request with actualStats set, the builder is
\* given the caller's evs table whenever there is one, as it is, even when it
\* has no speed entry, and {spe: 252} only when there is none; the same for
\* ivs with {spe: 31}, each table by itself; and the caller's nature and
\* level as they are.
ActualDefaultsPerTable ==
    \A i \in 1 .. Len(results) :
        IsSpeed(requests[i]) =>
            \A n \in 1 .. Len(Constructed(i)) :
                LET side == SidesOf(i)[n][1]
                    options == Constructed(i)[n].arg.options
                IN  TruthyFlag(side.actualStats) =>
                      /\ options.evs = IF Has(side.evs) THEN side.evs
                                       ELSE Some([spe |-> MaxSpeedEV])
                      /\ options.ivs = IF Has(side.ivs) THEN side.ivs
                                       ELSE Some([spe |-> MaxIV])
                      /\ options.nature = side.nature
                      /\ options.level = side.level
                      /\ BuilderCalls(i)[n].fn = "buildPokemon"

\* A flagged first side giving attack EVs only and no ivs: built with no
\* speed EVs, a speed IV of 31 and the neutral nature.
ActualDefaultsPerTableWitness ==
    /\ Len(results) = 1
    /\ IsSpeed(requests[1]) /\ results[1].ok
    /\ requests[1][1].pokemon1[1].actualStats = Some(TRUE)
    /\ requests[1][1].pokemon1[1].evs = Some([atk |-> 252])
    /\ requests[1][1].pokemon1[1].ivs = Absent
    /\ requests[1][1].pokemon1[1].nature = Absent
    /\ BuiltFor(1)[1].arg.evs.spe = 0
    /\ BuiltFor(1)[1].arg.evs.atk = 252
    /\ BuiltFor(1)[1].arg.ivs.spe = 31
    /\ BuiltFor(1)[1].arg.nature = "Serious"

\* A combatant description reduced to the fields the maximum-speed builder
\* reads: name, level, ability, item, boosts and status.
MaxSpeedView(data) ==
    Some([data[1] EXCEPT !.nature = Absent, !.evs = Absent, !.ivs = Absent,
                         !.teraType = Absent, !.moves = Absent, !.curHP = Absent,
                         !.originalCurHP = Absent])

\* A speed request of a combatant in maximum-speed mode against Ninetales-Alola.
AgainstNinetales(data) ==
    [NoReq EXCEPT !.type = Some("speed"),
                  !.pokemon1 = Some([data[1] EXCEPT !.actualStats = Absent]),
                  !.pokemon2 = Some(Ninetales)]

\* C29: in maximum-speed mode nature, evs, ivs, teraType, moves, curHP and
\* originalCurHP of the caller do not reach the combatant: the Oracle is
\* given, and builds, what it is given and builds for the description without
\* them, and the stats result and the speed result are the same with and
\* without them.
MaxSpeedFrame ==
    \A i \in 1 .. Len(results) :
        (IsStats(requests[i]) /\ requests[i][1].maxSpeed = Some(TRUE)
            /\ ~NoName(requests[i][1].pokemon)) =>
            LET data == requests[i][1].pokemon
                reduced == buildMaxSpeedPokemon(TopLevelGen, MaxSpeedView(data))
                stats == getStats(TopLevelGen, [requests[i][1] EXCEPT !.pokemon = MaxSpeedView(data)])
            IN  /\ Constructed(i) = CallsTo(reduced.calls, {"Pokemon"})
                /\ BuiltFor(i) = CallsTo(reduced.calls, {"PokemonBuilt"})
                /\ \A k \in {"teraType", "moves", "curHP", "originalCurHP"} :
                      Constructed(i)[1].arg.options[k] = Absent
                /\ results[i] = ResultOf(stats)
                /\ ResultOf(compareSpeed(TopLevelGen, AgainstNinetales(data)))
                      = ResultOf(compareSpeed(TopLevelGen, AgainstNinetales(MaxSpeedView(data))))

\* A combatant with a speed-lowering nature, a speed IV of 0, a tera type,
\* moves and current HP, built in maximum-speed mode as if it had none.
MaxSpeedFrameWitness ==
    /\ Len(results) = 1
    /\ IsStats(requests[1]) /\ results[1].ok
    /\ requests[1][1].maxSpeed = Some(TRUE)
    /\ requests[1][1].pokemon[1].nature = Some("Brave")
    /\ requests[1][1].pokemon[1].ivs = Some([spe |-> 0])
    /\ requests[1][1].pokemon[1].teraType = Some("Fire")
    /\ requests[1][1].pokemon[1].curHP = Some(10)
    /\ BuiltFor(1)[1].arg.teraType = Absent
    /\ BuiltFor(1)[1].arg.originalCurHP = BuiltFor(1)[1].arg.rawStats.hp
    /\ BuiltFor(1)[1].arg.nature = "Jolly"

(***************************************************************************)
(* The current version against the earlier, damage-only version            *)
(***************************************************************************)
\* The results written by the current version and by the earlier version.
CurrentResults == firstOut[1].stdout[1].results

LegacyResults == stdout[1].results

\* Both versions have written their results for a batch without a stats or
\* speed request.
BothWroteUntyped ==
    /\ run = 2 /\ pc = "done"
    /\ Len(firstOut[1].stdout) = 1
    /\ \A i \in 1 .. Len(requests) : ~IsStats(requests[i]) /\ ~IsSpeed(requests[i])

LegacyFields == {"damage", "range", "desc", "full_desc", "ko"}

\* Position i agrees on the ok flag and, for a success, on the five fields of
\* the earlier result, the current one adding the two speed fields.
SameOutcome(i) ==
    /\ CurrentResults[i].ok = LegacyResults[i].ok
    /\ CurrentResults[i].ok =>
          /\ DOMAIN LegacyResults[i].result = LegacyFields
          /\ DOMAIN CurrentResults[i].result =
                LegacyFields \cup {"attacker_stats", "defender_stats"}
          /\ \A k \in LegacyFields : CurrentResults[i].result[k] = LegacyResults[i].result[k]

\* The statement that, for every batch without a stats or speed request, the
\* two versions agree at every position, error messages included.
CompatibleEverywhere ==
    BothWroteUntyped =>
        /\ Len(CurrentResults) = Len(LegacyResults)
        /\ \A i \in 1 .. Len(CurrentResults) :
              /\ SameOutcome(i)
              /\ ~CurrentResults[i].ok => CurrentResults[i].error = LegacyResults[i].error

\* C30 (amended): for every batch without a stats or speed request the two
\* versions write lists of the same length with the same ok flag at every
\* position; a success carries the same damage, range, desc, full_desc and ko
\* and the current version adds attacker_stats and defender_stats; a failed
\* request that is not null carries the same error message; a null request
\* fails in both, each with the TypeError of the property it reads first.
CompatibleExceptNull ==
    BothWroteUntyped =>
        /\ Len(CurrentResults) = Len(LegacyResults)
        /\ Len(CurrentResults) = Len(requests)
        /\ \A i \in 1 .. Len(CurrentResults) :
              /\ SameOutcome(i)
              /\ (~CurrentResults[i].ok /\ Has(requests[i])) =>
                    CurrentResults[i].error = LegacyResults[i].error
              /\ ~Has(requests[i]) =>
                    /\ ~CurrentResults[i].ok
                    /\ CurrentResults[i].error = TypeErrorMsg(Null, "type")
                    /\ LegacyResults[i].error = LegacyTypeErrorMsg

\* Both versions ran a batch of a successful damage request, a damage request
\* without the defender's name and a null request.
CompatibleExceptNullWitness ==
    /\ BothWroteUntyped
    /\ Len(requests) = 3
    /\ CurrentResults[1].ok /\ LegacyResults[1].ok
    /\ CurrentResults[1].result.damage = LegacyResults[1].result.damage
    /\ Has(requests[2]) /\ ~CurrentResults[2].ok
    /\ LegacyResults[2].error = MissingPokemonName
    /\ ~Has(requests[3])
    /\ CurrentResults[3].error # LegacyResults[3].error

====
